---- MODULE Spec2Model ----
(***************************************************************************)
(* GroceryApp backend: the generic FSM engine (app/fsm/engine.py), the     *)
(* three workflow tables built on it, the foodbank source health registry  *)
(* (app/services/foodbank_sources.py) and the scheduled driver             *)
(* scrape_and_update (app/services/foodbank_service.py).                   *)
(***************************************************************************)
EXTENDS Integers, Sequences, FiniteSets, TLC

VARIABLES
    machine,      \* the StateMachine instance under test (fixed after construction)
    audit_log,    \* StateMachine._audit_log
    call,         \* the latest attempt_transition call: arguments, result, hooks invoked
    ncalls,       \* number of attempt_transition calls made so far
    observed,     \* state returned by the last successful call (initial_state before any)
    chained,      \* every successful call so far was given `observed` as current_state
    now,          \* time.time(), in seconds
    store,        \* Firestore collection foodbank_sources: id -> document
    inflight,     \* per calling thread: the fetch_source call waiting on its probe
    run,          \* the scrape_and_update run in progress, or the idle record
    op,           \* the latest registry operation completed, with its result
    nops,         \* number of registry operations started so far
    scheduler,    \* the module global _scheduler of scheduler.py
    schedulers,   \* the BackgroundScheduler objects created so far
    callers,      \* per thread: its position inside start() or stop()
    nsched,       \* number of start() and stop() calls made so far
    intervals,    \* 10-minute intervals elapsed
    nruns,        \* scheduled runs of scrape_and_update begun
    halted,       \* a stop() returned and no start() was called since
    heap,         \* the context dicts callers of the engine hold: name -> value
    refs,         \* per audit entry: the dict object its context field points to
    returned,     \* a list a caller got from get_audit_log: the entries it holds
    pending,      \* per thread: its attempt_transition call about to append
    finished,     \* the attempt_transition calls threads have made, with results
    twin_log,     \* _audit_log of a second instance built from the same table
    seen,         \* calls made on either instance: arguments and result
    available,    \* the latest get_available_triggers call: argument and result
    listers,      \* per thread: its position inside list_sources
    contributed,  \* the contributed_products document of one barcode, or None
    products,     \* the products document of that barcode, or None
    reviews       \* per reviewer: the position of their approve or reject call

engineVars == <<machine, audit_log, call, ncalls, observed, chained>>
registryVars == <<store, inflight, run, op, nops>>
schedulerVars == <<scheduler, schedulers, callers, nsched, intervals, nruns, halted>>
aliasVars == <<heap, refs, returned>>
threadVars == <<pending, finished>>
twinVars == <<twin_log, seen>>
auditVars == <<aliasVars, threadVars, twinVars>>
readVars == <<available, listers>>
reviewVars == <<contributed, products, reviews>>
vars == <<machine, audit_log, call, ncalls, observed, chained, now,
          store, inflight, run, op, nops,
          scheduler, schedulers, callers, nsched, intervals, nruns, halted,
          heap, refs, returned, pending, finished, twin_log, seen,
          available, listers, contributed, products, reviews>>

(***************************************************************************)
(* Bounds of the model.                                                    *)
(***************************************************************************)
MaxCalls == 2          \* attempt_transition calls per behaviour
MaxEngineTicks == 1    \* clock steps (seconds) while the engine is exercised
MaxOps == 2            \* registry operations started per behaviour
MaxHours == 1          \* hours the clock advances while the registry is exercised
MaxRefreshed == 1      \* foodbanks entries one source can have
MaxSchedulerCalls == 3 \* start() and stop() calls per behaviour
MaxIntervals == 1      \* 10-minute intervals that elapse

(***************************************************************************)
(* Python values.                                                          *)
(***************************************************************************)
PyNone == [py |-> "None"]
EmptyDict == [k \in {} |-> ""]

\* dict.get(key) with the default None
DictGet(d, key) == IF key \in DOMAIN d THEN d[key] ELSE PyNone

\* `context or {}`: None and the empty dict are both falsy
ContextOrEmpty(context) ==
    IF context = PyNone \/ DOMAIN context = {} THEN EmptyDict ELSE context

(***************************************************************************)
(* Transition tables.                                                      *)
(***************************************************************************)
Transition(from, to, trigger, guard, action) ==
    [from_state |-> from, to_state |-> to, trigger |-> trigger,
     guard |-> guard, action |-> action]

GuardHoldsAnyReason(guard, ctx) == "reason" \in DOMAIN ctx

\* guards: "None", or the name of a predicate over the context; the first
\* two are the lambdas of item_lifecycle, has_reason belongs to the example
\* machine below
GuardHolds(guard, ctx) ==
    CASE guard = "reason_used_up"   -> DictGet(ctx, "reason") = [str |-> "used_up"]
      [] guard = "reason_discarded" -> DictGet(ctx, "reason") = [str |-> "discarded"]
      [] guard = "has_reason"       -> "reason" \in DOMAIN ctx
      [] OTHER                      -> FALSE

item_lifecycle_ambiguous_consume ==
    [name |-> "item_lifecycle",
     states |-> {"scanned", "active", "consumed", "expired", "discarded"},
     initial_state |-> "scanned",
     transitions |-> <<
        Transition("scanned", "active", "promote", "None", "None"),
        Transition("scanned", "scanned", "discard_scan", "None", "None"),
        Transition("active", "consumed", "consume", "reason_used_up", "None"),
        Transition("active", "discarded", "consume", "reason_discarded", "None"),
        Transition("active", "expired", "expire", "None", "None"),
        Transition("active", "discarded", "discard", "reason_discarded", "None"),
        Transition("consumed", "active", "restore", "None", "None"),
        Transition("expired", "active", "restore", "None", "None"),
        Transition("discarded", "active", "restore", "None", "None") >>]

item_lifecycle_restoring_to_scanned ==
    [name |-> "item_lifecycle",
     states |-> {"scanned", "active", "consumed", "expired", "discarded"},
     initial_state |-> "scanned",
     transitions |-> <<
        Transition("scanned", "active", "promote", "None", "None"),
        Transition("scanned", "scanned", "discard_scan", "None", "None"),
        Transition("active", "consumed", "consume", "reason_used_up", "None"),
        Transition("active", "expired", "expire", "None", "None"),
        Transition("active", "discarded", "discard", "reason_discarded", "None"),
        Transition("consumed", "active", "restore", "None", "None"),
        Transition("expired", "active", "restore", "None", "None"),
        Transition("discarded", "scanned", "restore", "None", "None") >>]

item_lifecycle ==
    [name |-> "item_lifecycle",
     states |-> {"scanned", "active", "consumed", "expired", "discarded"},
     initial_state |-> "scanned",
     transitions |-> <<
        Transition("scanned", "active", "promote", "None", "None"),
        Transition("scanned", "scanned", "discard_scan", "None", "None"),
        Transition("active", "consumed", "consume", "reason_used_up", "None"),
        Transition("active", "expired", "expire", "None", "None"),
        Transition("active", "discarded", "discard", "reason_discarded", "None"),
        Transition("consumed", "active", "restore", "None", "None"),
        Transition("expired", "active", "restore", "None", "None"),
        Transition("discarded", "active", "restore", "None", "None") >>]

review_workflow_approving_rejected ==
    [name |-> "review_workflow",
     states |-> {"pending_review", "approved", "rejected", "needs_info"},
     initial_state |-> "pending_review",
     transitions |-> <<
        Transition("pending_review", "approved", "approve", "None", "None"),
        Transition("pending_review", "rejected", "reject", "None", "None"),
        Transition("pending_review", "needs_info", "request_info", "None", "None"),
        Transition("needs_info", "pending_review", "resubmit", "None", "None"),
        Transition("rejected", "pending_review", "appeal", "None", "None"),
        Transition("rejected", "approved", "approve", "None", "None") >>]

review_workflow_reopening_approved ==
    [name |-> "review_workflow",
     states |-> {"pending_review", "approved", "rejected", "needs_info"},
     initial_state |-> "pending_review",
     transitions |-> <<
        Transition("pending_review", "approved", "approve", "None", "None"),
        Transition("pending_review", "rejected", "reject", "None", "None"),
        Transition("pending_review", "needs_info", "request_info", "None", "None"),
        Transition("needs_info", "pending_review", "resubmit", "None", "None"),
        Transition("rejected", "pending_review", "appeal", "None", "None"),
        Transition("approved", "pending_review", "appeal", "None", "None") >>]

review_workflow ==
    [name |-> "review_workflow",
     states |-> {"pending_review", "approved", "rejected", "needs_info"},
     initial_state |-> "pending_review",
     transitions |-> <<
        Transition("pending_review", "approved", "approve", "None", "None"),
        Transition("pending_review", "rejected", "reject", "None", "None"),
        Transition("pending_review", "needs_info", "request_info", "None", "None"),
        Transition("needs_info", "pending_review", "resubmit", "None", "None"),
        Transition("rejected", "pending_review", "appeal", "None", "None") >>]

foodbank_pipeline_leaving_states ==
    [name |-> "foodbank_pipeline",
     states |-> {"scraped", "validated", "active", "inactive", "removed"},
     initial_state |-> "scraped",
     transitions |-> <<
        Transition("scraped", "validated", "validate", "None", "None"),
        Transition("validated", "active", "activate", "None", "None"),
        Transition("active", "inactive", "deactivate", "None", "None"),
        Transition("inactive", "active", "reactivate", "None", "None"),
        Transition("active", "removed", "remove", "None", "None"),
        Transition("inactive", "archived", "remove", "None", "None") >>]

foodbank_pipeline_skipping_validation ==
    [name |-> "foodbank_pipeline",
     states |-> {"scraped", "validated", "active", "inactive", "removed"},
     initial_state |-> "scraped",
     transitions |-> <<
        Transition("scraped", "validated", "validate", "None", "None"),
        Transition("scraped", "active", "activate", "None", "None"),
        Transition("validated", "active", "activate", "None", "None"),
        Transition("active", "inactive", "deactivate", "None", "None"),
        Transition("inactive", "active", "reactivate", "None", "None"),
        Transition("active", "removed", "remove", "None", "None"),
        Transition("inactive", "removed", "remove", "None", "None") >>]

foodbank_pipeline_with_restore ==
    [name |-> "foodbank_pipeline",
     states |-> {"scraped", "validated", "active", "inactive", "removed"},
     initial_state |-> "scraped",
     transitions |-> <<
        Transition("scraped", "validated", "validate", "None", "None"),
        Transition("validated", "active", "activate", "None", "None"),
        Transition("active", "inactive", "deactivate", "None", "None"),
        Transition("inactive", "active", "reactivate", "None", "None"),
        Transition("active", "removed", "remove", "None", "None"),
        Transition("inactive", "removed", "remove", "None", "None"),
        Transition("removed", "active", "reactivate", "None", "None") >>]

foodbank_pipeline ==
    [name |-> "foodbank_pipeline",
     states |-> {"scraped", "validated", "active", "inactive", "removed"},
     initial_state |-> "scraped",
     transitions |-> <<
        Transition("scraped", "validated", "validate", "None", "None"),
        Transition("validated", "active", "activate", "None", "None"),
        Transition("active", "inactive", "deactivate", "None", "None"),
        Transition("inactive", "active", "reactivate", "None", "None"),
        Transition("active", "removed", "remove", "None", "None"),
        Transition("inactive", "removed", "remove", "None", "None") >>]

\* A machine in the shape of the engine's docstring example, with several
\* transitions sharing (from_state, trigger), guards and action callbacks.
example_machine ==
    [name |-> "review",
     states |-> {"pending", "approved"},
     initial_state |-> "pending",
     transitions |-> <<
        Transition("pending", "approved", "approve", "reason_used_up", "act"),
        Transition("pending", "pending", "approve", "has_reason", "None"),
        Transition("approved", "pending", "reopen", "None", "act"),
        Transition("approved", "approved", "reopen", "None", "None") >>]

(***************************************************************************)
(* StateMachine.                                                           *)
(***************************************************************************)
\* __init__: _transition_map[(from_state, trigger)], the declaration indices
\* of the transitions under one key, in declaration order
RECURSIVE MapFrom(_, _, _)
MapFrom(transitions, key, i) ==
    IF i > Len(transitions) THEN <<>>
    ELSE (IF <<transitions[i].from_state, transitions[i].trigger>> = key
          THEN <<i>> ELSE <<>>) \o MapFrom(transitions, key, i + 1)

TransitionMapGet(m, key) == MapFrom(m.transitions, key, 1)

TransitionMapKeys(m) ==
    {<<m.transitions[i].from_state, m.transitions[i].trigger>> :
        i \in 1..Len(m.transitions)}

get_available_triggers_any_state(m, current_state) ==
    {key[2] : key \in TransitionMapKeys(m)}

get_available_triggers(m, current_state) ==
    {key[2] : key \in {k \in TransitionMapKeys(m) : k[1] = current_state}}

NoError == [kind |-> "None"]
NoTransitionError(trigger, current_state) ==
    [kind |-> "No transition", trigger |-> trigger, state |-> current_state]
ActionFailedError(e) == [kind |-> "Action failed", e |-> e]
GuardNotMetAsNoTransition(trigger) ==
    [kind |-> "No transition", trigger |-> trigger, state |-> ""]
GuardNotMetError(trigger) == [kind |-> "Guard conditions not met", trigger |-> trigger]

AuditEntry(from, to, trigger, actor_id, timestamp, context) ==
    [from_state |-> from, to_state |-> to, trigger |-> trigger,
     actor_id |-> actor_id, timestamp |-> timestamp, context |-> context]

\* what one attempt_transition call leaves behind: the returned tuple, the
\* entries appended to the audit log, and the guards and actions it invoked
\* (declaration indices, in invocation order)
Outcome(success, state, error, appended, guards, actions) ==
    [success |-> success, state |-> state, error |-> error,
     appended |-> appended, guards |-> guards, actions |-> actions]

AppliedEntryDefaultActor(t, current_state, trigger, actor_id, ctx, ts) ==
    AuditEntry(current_state, t.to_state, trigger, "system", ts, ctx)

AppliedEntryStaleState(t, current_state, trigger, actor_id, ctx, ts) ==
    AuditEntry(current_state, current_state, trigger, actor_id, ts, ctx)

\* the audit entry attempt_transition builds for a transition it applies
AppliedEntry(t, current_state, trigger, actor_id, ctx, ts) ==
    AuditEntry(current_state, t.to_state, trigger, actor_id, ts, ctx)

ApplyCandidateSwallowingError(m, idx, current_state, trigger, actor_id, ctx, raises, ts, guards) ==
    LET t == m.transitions[idx] IN
    Outcome(TRUE, t.to_state, NoError,
            <<AuditEntry(current_state, t.to_state, trigger, actor_id, ts, ctx)>>,
            guards,
            IF t.action # "None" THEN <<idx>> ELSE <<>>)

\* the candidate with declaration index idx was selected: run its action,
\* then record the transition
ApplyCandidate(m, idx, current_state, trigger, actor_id, ctx, raises, ts, guards) ==
    LET t == m.transitions[idx] IN
    IF t.action # "None" /\ raises
    THEN Outcome(FALSE, current_state, ActionFailedError("boom"), <<>>, guards, <<idx>>)
    ELSE Outcome(TRUE, t.to_state, NoError,
                 <<AppliedEntry(t, current_state, trigger, actor_id, ctx, ts)>>,
                 guards,
                 IF t.action # "None" THEN <<idx>> ELSE <<>>)

ScanIgnoringGuards(m, candidates, k, current_state, trigger, actor_id, ctx, raises, ts, guards) ==
    ApplyCandidate(m, candidates[k], current_state, trigger, actor_id, ctx, raises, ts, guards)

\* the loop `for transition in candidates`, from position k on
RECURSIVE ScanCandidates(_, _, _, _, _, _, _, _, _, _)
ScanCandidates(m, candidates, k, current_state, trigger, actor_id, ctx, raises, ts, guards) ==
    IF k > Len(candidates)
    THEN Outcome(FALSE, current_state, GuardNotMetError(trigger), <<>>, guards, <<>>)
    ELSE LET idx == candidates[k]
             t == m.transitions[idx]
         IN IF t.guard # "None" /\ ~GuardHolds(t.guard, ctx)
            THEN ScanCandidates(m, candidates, k + 1, current_state, trigger,
                                actor_id, ctx, raises, ts, Append(guards, idx))
            ELSE ApplyCandidate(m, idx, current_state, trigger, actor_id, ctx, raises, ts,
                                IF t.guard # "None" THEN Append(guards, idx) ELSE guards)

attempt_transition_unchecked(m, current_state, trigger, actor_id, context, raises, ts) ==
    ScanCandidates(m, TransitionMapGet(m, <<current_state, trigger>>), 1, current_state,
                   trigger, actor_id, ContextOrEmpty(context), raises, ts, <<>>)

\* attempt_transition(current_state, trigger, actor_id, context); `raises`
\* says whether an action callback invoked by this call raises, `ts` is
\* time.time()
attempt_transition(m, current_state, trigger, actor_id, context, raises, ts) ==
    LET ctx == ContextOrEmpty(context)
        candidates == TransitionMapGet(m, <<current_state, trigger>>)
    IN IF candidates = <<>>
       THEN Outcome(FALSE, current_state, NoTransitionError(trigger, current_state),
                    <<>>, <<>>, <<>>)
       ELSE ScanCandidates(m, candidates, 1, current_state, trigger, actor_id,
                           ctx, raises, ts, <<>>)

(***************************************************************************)
(* Callers of the engine.                                                  *)
(***************************************************************************)
Machines == {example_machine}

TriggersOf(m) == {m.transitions[i].trigger : i \in 1..Len(m.transitions)}

\* states a caller may supply: the declared ones and one the machine never declared
SuppliedStates(m) == m.states \cup {"zombie"}
SuppliedTriggers(m) == TriggersOf(m) \cup {"bogus"}
Actors == {"system", "admin1"}
Contexts == {PyNone, [reason |-> [str |-> "used_up"]],
             [reason |-> [str |-> "discarded"]]}

NoCall == [made |-> FALSE]

\* the arguments of a call, whether its action callbacks raise, and its outcome
CallRecord(current_state, trigger, actor_id, context, raises, ts, out) ==
    [made |-> TRUE, current_state |-> current_state, trigger |-> trigger,
     actor_id |-> actor_id, context |-> context, raises |-> raises, ts |-> ts,
     success |-> out.success, state |-> out.state, error |-> out.error,
     guards |-> out.guards, actions |-> out.actions]

\* one attempt_transition call on the shared instance
Attempt(current_state, trigger, actor_id, context, raises) ==
    /\ ncalls < MaxCalls
    /\ LET out == attempt_transition(machine, current_state, trigger, actor_id,
                                     context, raises, now)
       IN /\ audit_log' = audit_log \o out.appended
          /\ call' = CallRecord(current_state, trigger, actor_id, context, raises, now, out)
          /\ observed' = IF out.success THEN out.state ELSE observed
          /\ chained' = (chained /\ (out.success => current_state = observed))
    /\ ncalls' = ncalls + 1
    /\ UNCHANGED <<reviewVars, readVars, machine, now, registryVars, schedulerVars, auditVars>>

\* get_audit_log and get_available_triggers read and change nothing

EngineTick ==
    /\ now < MaxEngineTicks
    /\ now' = now + 1
    /\ UNCHANGED <<reviewVars, readVars, engineVars, schedulerVars, auditVars, registryVars>>

(***************************************************************************)
(* The audit entries as Python objects: AuditEntry is a plain dataclass    *)
(* whose context field holds the very dict the caller passed.              *)
(***************************************************************************)
ContextObjects == {"ctx_a", "ctx_b"}
DictValues == {EmptyDict, [reason |-> [str |-> "used_up"]],
               [reason |-> [str |-> "discarded"]]}

\* the dict `context or {}` makes when the caller's context is falsy
Fresh == "fresh"

EngineThreads == {"t1", "t2"}
ThreadIdle == [pc |-> "idle"]

AuditIdle ==
    /\ heap = [o \in {} |-> EmptyDict]
    /\ refs = <<>>
    /\ returned = <<>>
    /\ pending = [t \in EngineThreads |-> ThreadIdle]
    /\ finished = <<>>
    /\ twin_log = <<>>
    /\ seen = {}

\* the object the context field of a new entry points to: the caller's dict,
\* or a new empty one when that dict is empty
EntryContextRef(obj) == IF DOMAIN heap[obj] = {} THEN Fresh ELSE obj

\* attempt_transition called with a dict the caller goes on holding
AttemptHeld(obj, current_state, trigger, actor_id, raises) ==
    /\ ncalls < MaxCalls
    /\ LET out == attempt_transition(machine, current_state, trigger, actor_id,
                                     heap[obj], raises, now)
       IN /\ audit_log' = audit_log \o out.appended
          /\ refs' = IF out.appended = <<>> THEN refs
                     ELSE Append(refs, EntryContextRef(obj))
          /\ call' = CallRecord(current_state, trigger, actor_id, heap[obj], raises, now, out)
          /\ observed' = IF out.success THEN out.state ELSE observed
          /\ chained' = (chained /\ (out.success => current_state = observed))
    /\ ncalls' = ncalls + 1
    /\ UNCHANGED <<reviewVars, readVars, machine, now, registryVars, schedulerVars, heap, returned,
                   threadVars, twinVars>>

\* the caller changes its dict in place: every entry whose context field is
\* that dict shows the new content
CallerUpdatesContext(obj, value) ==
    /\ value # heap[obj]
    /\ heap' = [heap EXCEPT ![obj] = value]
    /\ audit_log' = [i \in 1..Len(audit_log) |->
                        IF refs[i] = obj
                        THEN [audit_log[i] EXCEPT !.context = value]
                        ELSE audit_log[i]]
    /\ UNCHANGED <<reviewVars, readVars, machine, call, ncalls, observed, chained, now, registryVars,
                   schedulerVars, refs, returned, threadVars, twinVars>>

\* get_audit_log: a new list holding the entry objects of _audit_log
get_audit_log ==
    /\ returned # [i \in 1..Len(audit_log) |-> i]
    /\ returned' = [i \in 1..Len(audit_log) |-> i]
    /\ UNCHANGED <<reviewVars, readVars, engineVars, now, registryVars, schedulerVars, heap, refs,
                   threadVars, twinVars>>

\* the holder of a returned list removes its first item
ReturnedListPop ==
    /\ returned # <<>>
    /\ returned' = Tail(returned)
    /\ UNCHANGED <<reviewVars, readVars, engineVars, now, registryVars, schedulerVars, heap, refs,
                   threadVars, twinVars>>

\* the holder of a returned list assigns a field of one of its items, which
\* is the entry object of _audit_log
ReturnedEntrySet(j, actor_id) ==
    /\ j \in DOMAIN returned
    /\ audit_log[returned[j]].actor_id # actor_id
    /\ audit_log' = [audit_log EXCEPT ![returned[j]].actor_id = actor_id]
    /\ UNCHANGED <<reviewVars, readVars, machine, call, ncalls, observed, chained, now, registryVars,
                   schedulerVars, auditVars>>

(***************************************************************************)
(* attempt_transition called from several threads on one instance.         *)
(***************************************************************************)
ThreadContexts == {PyNone, [reason |-> [str |-> "used_up"]]}

AppendOverwritingLast(log, entry) ==
    IF log = <<>> THEN <<entry>> ELSE [log EXCEPT ![Len(log)] = entry]

\* self._audit_log.append(entry): one indivisible list operation
ListAppend(log, entry) == Append(log, entry)

\* what a call returned, with the fields the call itself supplied
FinishedCall(t, current_state, trigger, actor_id, out, overlapped) ==
    [thread |-> t, success |-> out.success, from_state |-> current_state,
     to_state |-> out.state, trigger |-> trigger, actor_id |-> actor_id,
     overlapped |-> overlapped]

\* a thread runs attempt_transition up to the append: lookup, guards and
\* action read nothing another call writes; a failing call returns here
CallStarts(t, current_state, trigger, actor_id, context, raises) ==
    /\ ncalls < MaxCalls
    /\ pending[t] = ThreadIdle
    /\ ncalls' = ncalls + 1
    /\ LET out == attempt_transition(machine, current_state, trigger, actor_id,
                                     context, raises, now)
       IN IF out.success
          THEN /\ pending' = [pending EXCEPT ![t] =
                                 [pc |-> "append", entry |-> out.appended[1],
                                  current_state |-> current_state,
                                  trigger |-> trigger, actor_id |-> actor_id,
                                  out |-> [success |-> out.success, state |-> out.state]]]
               /\ UNCHANGED finished
          ELSE /\ finished' = Append(finished,
                                     FinishedCall(t, current_state, trigger, actor_id,
                                                  out, FALSE))
               /\ UNCHANGED pending
    /\ UNCHANGED <<reviewVars, readVars, machine, audit_log, call, observed, chained, now, registryVars,
                   schedulerVars, aliasVars, twinVars>>

\* the thread appends its entry and returns (True, to_state, None)
CallAppends(t) ==
    /\ pending[t] # ThreadIdle
    /\ audit_log' = ListAppend(audit_log, pending[t].entry)
    /\ finished' = Append(finished,
                          FinishedCall(t, pending[t].current_state, pending[t].trigger,
                                       pending[t].actor_id, pending[t].out,
                                       \E u \in EngineThreads \ {t} : pending[u] # ThreadIdle))
    /\ pending' = [pending EXCEPT ![t] = ThreadIdle]
    /\ UNCHANGED <<reviewVars, readVars, machine, call, ncalls, observed, chained, now, registryVars,
                   schedulerVars, aliasVars, twinVars>>

(***************************************************************************)
(* Two StateMachine instances built from the same table.                   *)
(***************************************************************************)
Instances == {1, 2}

InstanceCallFreshOnly(log, m, current_state, trigger, actor_id, context, raises, ts) ==
    IF log = <<>>
    THEN attempt_transition(m, current_state, trigger, actor_id, context, raises, ts)
    ELSE Outcome(FALSE, current_state, NoTransitionError(trigger, current_state),
                 <<>>, <<>>, <<>>)

\* self.attempt_transition(...) on an instance whose _audit_log is log: the
\* method reads self._transition_map and never self._audit_log
InstanceCall(log, m, current_state, trigger, actor_id, context, raises, ts) ==
    attempt_transition(m, current_state, trigger, actor_id, context, raises, ts)

\* a call on one of the two instances; raises says how the action callbacks
\* of the table behave on this context
TwinAttempt(inst, current_state, trigger, actor_id, context, raises) ==
    /\ ncalls < MaxCalls
    /\ ncalls' = ncalls + 1
    /\ LET log == IF inst = 1 THEN audit_log ELSE twin_log
           out == InstanceCall(log, machine, current_state, trigger, actor_id,
                               context, raises, now)
       IN /\ audit_log' = IF inst = 1 THEN audit_log \o out.appended ELSE audit_log
          /\ twin_log' = IF inst = 2 THEN twin_log \o out.appended ELSE twin_log
          /\ seen' = seen \cup
                       {[inst |-> inst, history |-> log, actor_id |-> actor_id,
                         current_state |-> current_state, trigger |-> trigger,
                         context |-> context, raises |-> raises,
                         success |-> out.success, state |-> out.state,
                         error |-> out.error]}
    /\ UNCHANGED <<reviewVars, readVars, machine, call, observed, chained, now, registryVars,
                   schedulerVars, aliasVars, threadVars>>

(***************************************************************************)
(* Source health registry (foodbank_sources.py).                           *)
(***************************************************************************)
HOUR == 3600
DEFAULT_COOLDOWN_HOURS == 6

Num(n) == [num |-> n]
Str(x) == [str |-> x]

\* rank is the position of the name in the sorted order of the names
BUILTIN_SOURCES ==
    << [id |-> "yfbm", name |-> "Yayasan Food Bank Malaysia", rank |-> 4],
       [id |-> "foodaid", name |-> "Food Aid Foundation", rank |-> 1],
       [id |-> "lostfood", name |-> "The Lost Food Project", rank |-> 3],
       [id |-> "kechara", name |-> "Kechara Soup Kitchen", rank |-> 2] >>

SourceIds == {BUILTIN_SOURCES[i].id : i \in 1..Len(BUILTIN_SOURCES)}
Builtin(id) == CHOOSE b \in {BUILTIN_SOURCES[i] : i \in 1..Len(BUILTIN_SOURCES)} : b.id = id

\* the document _seed_builtin_sources writes for one source
SeedDoc(src) ==
    [name |-> src.name, rank |-> src.rank, status |-> "healthy",
     last_success |-> PyNone, last_error |-> PyNone, error_message |-> PyNone,
     cooldown_until |-> PyNone, cooldown_hours |-> Num(DEFAULT_COOLDOWN_HOURS)]

seed_builtin_sources == [id \in SourceIds |-> SeedDoc(Builtin(id))]

\* a document an operator configured: its own cooldown_hours, or none stored
ConfiguredDocs(src) ==
    {[SeedDoc(src) EXCEPT !.cooldown_hours = Num(1)],
     [f \in DOMAIN SeedDoc(src) \ {"cooldown_hours"} |-> SeedDoc(src)[f]]}

\* get_source: the document with its id, or None
get_source(st, source_id) ==
    IF source_id \in DOMAIN st THEN st[source_id] ELSE PyNone

\* results.sort(key=name): the ids of the documents in name order
RECURSIVE SortedByName(_, _)
SortedByName(st, ids) ==
    IF ids = {} THEN <<>>
    ELSE LET first == CHOOSE i \in ids : \A j \in ids : st[i].rank <= st[j].rank
         IN <<first>> \o SortedByName(st, ids \ {first})

\* the collection as list_sources leaves it: seeded when it was empty
StoreAfterList(st) == IF DOMAIN st = {} THEN seed_builtin_sources ELSE st

\* list_sources: the documents, each with its id, sorted by name; of a
\* document the model keeps the fields a caller of list_sources reads
list_sources(st) ==
    LET after == StoreAfterList(st)
        order == SortedByName(after, DOMAIN after)
    IN [i \in 1..Len(order) |->
           [id |-> order[i], status |-> after[order[i]].status,
            cooldown_until |-> after[order[i]].cooldown_until]]

is_in_cooldown_never(source, t) == FALSE

is_in_cooldown_inclusive(source, t) ==
    IF DictGet(source, "cooldown_until") = PyNone THEN FALSE
    ELSE t <= source.cooldown_until.num

is_in_cooldown_by_status(source, t) ==
    source.status = "cooldown"

is_in_cooldown(source, t) ==
    IF DictGet(source, "cooldown_until") = PyNone THEN FALSE
    ELSE t < source.cooldown_until.num

CooldownHours(source) ==
    IF source # PyNone /\ "cooldown_hours" \in DOMAIN source
    THEN source.cooldown_hours.num ELSE DEFAULT_COOLDOWN_HOURS

enter_cooldown_everywhere(st, source_id, error_message, t) ==
    [id \in DOMAIN st |->
        [st[id] EXCEPT !.status = "cooldown", !.last_error = Num(t),
                       !.error_message = Str(error_message),
                       !.cooldown_until = Num(t + (CooldownHours(st[id]) * HOUR))]]

enter_cooldown_unscaled(st, source_id, error_message, t) ==
    [st EXCEPT ![source_id] =
        [f \in DOMAIN @ |->
            CASE f = "status" -> "cooldown"
              [] f = "last_error" -> Num(t)
              [] f = "error_message" -> Str(error_message)
              [] f = "cooldown_until" ->
                    Num(t + (IF "cooldown_hours" \in DOMAIN @ THEN @.cooldown_hours.num
                             ELSE DEFAULT_COOLDOWN_HOURS))
              [] OTHER -> @[f]]]

\* _enter_cooldown: the update it writes at time t
enter_cooldown(st, source_id, error_message, t) ==
    LET hours == CooldownHours(get_source(st, source_id))
    IN [st EXCEPT ![source_id] =
           [f \in DOMAIN @ |->
               CASE f = "status" -> "cooldown"
                 [] f = "last_error" -> Num(t)
                 [] f = "error_message" -> Str(error_message)
                 [] f = "cooldown_until" -> Num(t + (hours * HOUR))
                 [] OTHER -> @[f]]]

MarkHealthyUnlessDisabled(st, source_id) ==
    IF st[source_id].status = "disabled" THEN st
    ELSE [st EXCEPT ![source_id] =
             [@ EXCEPT !.status = "healthy", !.cooldown_until = PyNone,
                       !.error_message = PyNone]]

MarkHealthyKeepingMessage(st, source_id) ==
    [st EXCEPT ![source_id] = [@ EXCEPT !.status = "healthy", !.cooldown_until = PyNone]]

MarkHealthyKeepingTimer(st, source_id) ==
    [st EXCEPT ![source_id] = [@ EXCEPT !.status = "healthy", !.error_message = PyNone]]

\* the update reset_cooldown and enable_source write
MarkHealthy(st, source_id) ==
    [st EXCEPT ![source_id] =
        [f \in DOMAIN @ |->
            CASE f = "status" -> "healthy"
              [] f = "cooldown_until" -> PyNone
              [] f = "error_message" -> PyNone
              [] OTHER -> @[f]]]

\* the update fetch_source writes after a successful probe and refresh
MarkSuccess(st, source_id, t) ==
    [st EXCEPT ![source_id] =
        [f \in DOMAIN @ |->
            CASE f = "status" -> "healthy"
              [] f = "last_success" -> Num(t)
              [] f = "cooldown_until" -> PyNone
              [] f = "error_message" -> PyNone
              [] OTHER -> @[f]]]

MarkDisabledClearingTimer(st, source_id) ==
    [st EXCEPT ![source_id] =
        [@ EXCEPT !.status = "disabled", !.cooldown_until = PyNone]]

MarkDisabled(st, source_id) ==
    [st EXCEPT ![source_id] = [@ EXCEPT !.status = "disabled"]]

FetchResult(success, new_count, error) ==
    [success |-> success, new_count |-> new_count, error |-> error]

Threads == {"scheduler", "manual"}
Idle == [pc |-> "idle"]
NoOp == [name |-> "none"]
NoRun == [active |-> FALSE]

\* ids callers pass: the stored ones and one that names no document
CallerIds == DOMAIN store \cup {"ghost"}

\* what the probe (httpx GET, timeout 15 s) can give: a response below 400,
\* a response of 400 or more, a network exception, or the timeout's exception
ProbeOutcomes == {"ok", "http_error", "exception", "timeout"}
\* what _refresh_source_entries can give after a good probe: a count, or
\* (RefreshRaises) an exception of one of its Firestore calls
RefreshRaises == 0 - 1
RefreshOutcomes == (0..MaxRefreshed) \cup {RefreshRaises}

ProbeError(outcome) ==
    IF outcome = "http_error" THEN "HTTP 500 from url"
    ELSE IF outcome = "timeout" THEN "timed out"
    ELSE "probe exception"

(***************************************************************************)
(* Registry operations.                                                    *)
(***************************************************************************)
Started == nops' = nops + 1

reset_cooldown(source_id) ==
    /\ nops < MaxOps
    /\ Started
    /\ IF source_id \notin DOMAIN store
       THEN /\ store' = store
            /\ op' = [name |-> "reset_cooldown", id |-> source_id, ok |-> FALSE]
       ELSE /\ store' = MarkHealthy(store, source_id)
            /\ op' = [name |-> "reset_cooldown", id |-> source_id, ok |-> TRUE]
    /\ UNCHANGED <<reviewVars, readVars, engineVars, schedulerVars, auditVars, now, inflight, run>>

disable_source(source_id) ==
    /\ nops < MaxOps
    /\ Started
    /\ IF source_id \notin DOMAIN store
       THEN /\ store' = store
            /\ op' = [name |-> "disable_source", id |-> source_id, ok |-> FALSE]
       ELSE /\ store' = MarkDisabled(store, source_id)
            /\ op' = [name |-> "disable_source", id |-> source_id, ok |-> TRUE]
    /\ UNCHANGED <<reviewVars, readVars, engineVars, schedulerVars, auditVars, now, inflight, run>>

enable_source(source_id) ==
    /\ nops < MaxOps
    /\ Started
    /\ IF source_id \notin DOMAIN store
       THEN /\ store' = store
            /\ op' = [name |-> "enable_source", id |-> source_id, ok |-> FALSE]
       ELSE /\ store' = MarkHealthy(store, source_id)
            /\ op' = [name |-> "enable_source", id |-> source_id, ok |-> TRUE]
    /\ UNCHANGED <<reviewVars, readVars, engineVars, schedulerVars, auditVars, now, inflight, run>>

FetchReturnsEarlyUnknownOnly(source_id) ==
    get_source(store, source_id) = PyNone

\* fetch_source up to the probe: it returns at once for an unknown or a
\* disabled source, otherwise the thread waits on the probe
FetchReturnsEarly(source_id) ==
    \/ get_source(store, source_id) = PyNone
    \/ get_source(store, source_id).status = "disabled"

EarlyResult(source_id) ==
    IF get_source(store, source_id) = PyNone
    THEN FetchResult(FALSE, 0, "Source not found")
    ELSE FetchResult(FALSE, 0, "Source is disabled")

RefreshError == "refresh exception"

\* a fetch_source call that returned: the probe's answer ("none" when no
\* probe was made), what the refresh gave after a good probe, the result
FetchOp(thread, source_id, probe, refresh, result) ==
    [name |-> "fetch_source", thread |-> thread, id |-> source_id,
     probe |-> probe, refresh |-> IF probe = "ok" THEN refresh ELSE 0,
     result |-> result]

\* the writes and the result of fetch_source once the probe has answered
\* and, after a response below 400, the refresh has ended
FetchOutcomeStoreDisablingOnFailure(source_id, probe, refresh, t) ==
    IF probe = "ok" /\ refresh >= 0
    THEN MarkSuccess(store, source_id, t)
    ELSE MarkDisabled(store, source_id)

FetchOutcomeStore(source_id, probe, refresh, t) ==
    IF probe = "ok" /\ refresh >= 0
    THEN MarkSuccess(store, source_id, t)
    ELSE enter_cooldown(store, source_id,
                        IF probe = "ok" THEN RefreshError ELSE ProbeError(probe), t)

FetchOutcomeResult(probe, refresh) ==
    IF probe = "ok" /\ refresh >= 0
    THEN FetchResult(TRUE, refresh, "None")
    ELSE FetchResult(FALSE, 0,
                     IF probe = "ok" THEN RefreshError ELSE ProbeError(probe))

\* POST /sources/{id}/fetch: the administrator's fetch, up to the probe
ManualFetch(source_id) ==
    /\ nops < MaxOps
    /\ Started
    /\ inflight["manual"] = Idle
    /\ listers["manual"] = Idle
    /\ IF FetchReturnsEarly(source_id)
       THEN /\ op' = FetchOp("manual", source_id, "none", 0, EarlyResult(source_id))
            /\ UNCHANGED inflight
       ELSE /\ op' = [name |-> "probe_start", thread |-> "manual", id |-> source_id]
            /\ inflight' = [inflight EXCEPT !["manual"] = [pc |-> "probing", id |-> source_id]]
    /\ UNCHANGED <<reviewVars, readVars, engineVars, schedulerVars, auditVars, now, store, run>>

\* the probe of the manual fetch answers: on a response below 400 the call
\* goes on to refresh the entries, otherwise it enters cooldown and returns
ManualProbeAnswers(probe) ==
    /\ inflight["manual"] # Idle
    /\ inflight["manual"].pc = "probing"
    /\ LET source_id == inflight["manual"].id
       IN IF probe = "ok"
          THEN /\ inflight' = [inflight EXCEPT !["manual"].pc = "refreshing"]
               /\ op' = [name |-> "probe_ok", thread |-> "manual", id |-> source_id]
               /\ UNCHANGED store
          ELSE /\ store' = FetchOutcomeStore(source_id, probe, 0, now)
               /\ op' = FetchOp("manual", source_id, probe, 0,
                               FetchOutcomeResult(probe, 0))
               /\ inflight' = [inflight EXCEPT !["manual"] = Idle]
    /\ UNCHANGED <<reviewVars, readVars, engineVars, schedulerVars, auditVars, now, run, nops>>

\* _refresh_source_entries ends; fetch_source writes and returns
ManualRefreshReturns(refresh) ==
    /\ inflight["manual"] # Idle
    /\ inflight["manual"].pc = "refreshing"
    /\ LET source_id == inflight["manual"].id
       IN /\ store' = FetchOutcomeStore(source_id, "ok", refresh, now)
          /\ op' = FetchOp("manual", source_id, "ok", refresh,
                          FetchOutcomeResult("ok", refresh))
    /\ inflight' = [inflight EXCEPT !["manual"] = Idle]
    /\ UNCHANGED <<reviewVars, readVars, engineVars, schedulerVars, auditVars, now, run, nops>>

\* scrape_and_update starts: list_sources gives the run its snapshot
RunStart ==
    /\ nops < MaxOps
    /\ Started
    /\ ~run.active
    /\ store' = StoreAfterList(store)
    /\ run' = [active |-> TRUE, sources |-> list_sources(store), i |-> 1, total |-> 0]
    /\ op' = [name |-> "run_start"]
    /\ UNCHANGED <<reviewVars, readVars, engineVars, schedulerVars, auditVars, now, inflight>>

\* the interval job "foodbank_scrape" of a started scheduler comes due and
\* calls scrape_and_update; the job keeps one instance, so a run that is
\* still going makes the firing a miss
ScheduledRunStart ==
    /\ ~run.active
    /\ store' = StoreAfterList(store)
    /\ run' = [active |-> TRUE, sources |-> list_sources(store), i |-> 1, total |-> 0]
    /\ op' = [name |-> "run_start"]
    /\ UNCHANGED <<reviewVars, readVars, engineVars, schedulerVars, auditVars, now, inflight, nops>>

\* one turn of the loop of scrape_and_update, up to the probe if it fetches
RunStep ==
    /\ run.active
    /\ inflight["scheduler"] = Idle
    /\ run.i <= Len(run.sources)
    /\ LET source == run.sources[run.i]
           source_id == source.id
       IN IF source.status = "disabled" \/ is_in_cooldown(source, now)
          THEN /\ run' = [run EXCEPT !.i = @ + 1]
               /\ op' = [name |-> "run_skip", id |-> source_id]
               /\ UNCHANGED inflight
          ELSE IF FetchReturnsEarly(source_id)
          THEN /\ run' = [run EXCEPT !.i = @ + 1,
                                     !.total = @ + EarlyResult(source_id).new_count]
               /\ op' = FetchOp("scheduler", source_id, "none", 0, EarlyResult(source_id))
               /\ UNCHANGED inflight
          ELSE /\ op' = [name |-> "probe_start", thread |-> "scheduler", id |-> source_id]
               /\ inflight' = [inflight EXCEPT !["scheduler"] =
                                  [pc |-> "probing", id |-> source_id]]
               /\ UNCHANGED run
    /\ UNCHANGED <<reviewVars, readVars, engineVars, schedulerVars, auditVars, now, store, nops>>

\* the probe of the run's fetch answers: on a response below 400 the call
\* goes on to refresh the entries, otherwise it enters cooldown and returns,
\* and the loop adds new_count
RunProbeAnswers(probe) ==
    /\ inflight["scheduler"] # Idle
    /\ inflight["scheduler"].pc = "probing"
    /\ LET source_id == inflight["scheduler"].id
           result == FetchOutcomeResult(probe, 0)
       IN IF probe = "ok"
          THEN /\ inflight' = [inflight EXCEPT !["scheduler"].pc = "refreshing"]
               /\ op' = [name |-> "probe_ok", thread |-> "scheduler", id |-> source_id]
               /\ UNCHANGED <<store, run>>
          ELSE /\ store' = FetchOutcomeStore(source_id, probe, 0, now)
               /\ op' = FetchOp("scheduler", source_id, probe, 0, result)
               /\ run' = [run EXCEPT !.i = @ + 1, !.total = @ + result.new_count]
               /\ inflight' = [inflight EXCEPT !["scheduler"] = Idle]
    /\ UNCHANGED <<reviewVars, readVars, engineVars, schedulerVars, auditVars, now, nops>>

\* _refresh_source_entries ends; fetch_source writes and returns, and the
\* loop adds new_count
RunRefreshReturns(refresh) ==
    /\ inflight["scheduler"] # Idle
    /\ inflight["scheduler"].pc = "refreshing"
    /\ LET source_id == inflight["scheduler"].id
           result == FetchOutcomeResult("ok", refresh)
       IN /\ store' = FetchOutcomeStore(source_id, "ok", refresh, now)
          /\ op' = FetchOp("scheduler", source_id, "ok", refresh, result)
          /\ run' = [run EXCEPT !.i = @ + 1, !.total = @ + result.new_count]
    /\ inflight' = [inflight EXCEPT !["scheduler"] = Idle]
    /\ UNCHANGED <<reviewVars, readVars, engineVars, schedulerVars, auditVars, now, nops>>

\* scrape_and_update returns its total
RunEnd ==
    /\ run.active
    /\ inflight["scheduler"] = Idle
    /\ run.i > Len(run.sources)
    /\ run' = NoRun
    /\ op' = [name |-> "run_end", total |-> run.total]
    /\ UNCHANGED <<reviewVars, readVars, engineVars, schedulerVars, auditVars, now, store, inflight, nops>>

Tick ==
    /\ now < MaxHours * HOUR
    /\ now' = now + HOUR
    /\ UNCHANGED <<reviewVars, readVars, engineVars, schedulerVars, auditVars, registryVars>>

(***************************************************************************)
(* Background scheduler (scheduler.py).                                    *)
(***************************************************************************)
SchedulerCallers == {"main", "worker"}
JobId == "foodbank_scrape"
CallerIdle == [pc |-> "idle"]
StartPcs == {"start_create", "start_add_job", "start_start"}

\* BackgroundScheduler(): a stopped scheduler without jobs; due says the
\* interval trigger of its job has come due, busy that an instance of the
\* job is executing
BackgroundScheduler ==
    [state |-> "stopped", jobs |-> {}, due |-> FALSE, busy |-> FALSE]

LiveTimers ==
    {k \in DOMAIN schedulers :
        schedulers[k].state = "running" /\ JobId \in schedulers[k].jobs}

\* start() is called and tests the global: a scheduler is there, so it
\* returns, or none is, so it goes on
StartCheck(t) ==
    /\ nsched < MaxSchedulerCalls
    /\ callers[t] = CallerIdle
    /\ nsched' = nsched + 1
    /\ halted' = FALSE
    /\ callers' = [callers EXCEPT ![t] =
                      IF scheduler # PyNone THEN CallerIdle
                      ELSE [pc |-> "start_create"]]
    /\ UNCHANGED <<reviewVars, readVars, engineVars, registryVars, auditVars, now, scheduler, schedulers, intervals, nruns>>

\* _scheduler = BackgroundScheduler()
StartCreate(t) ==
    /\ callers[t].pc = "start_create"
    /\ schedulers' = Append(schedulers, BackgroundScheduler)
    /\ scheduler' = Num(Len(schedulers) + 1)
    /\ callers' = [callers EXCEPT ![t] = [pc |-> "start_add_job"]]
    /\ UNCHANGED <<reviewVars, readVars, engineVars, registryVars, auditVars, now, nsched, intervals, nruns, halted>>

\* _scheduler.add_job(..., id="foodbank_scrape", replace_existing=True) on
\* whatever the global holds now; on None the call raises AttributeError
StartAddJob(t) ==
    /\ callers[t].pc = "start_add_job"
    /\ IF scheduler = PyNone
       THEN /\ callers' = [callers EXCEPT ![t] = CallerIdle]
            /\ UNCHANGED schedulers
       ELSE /\ schedulers' = [schedulers EXCEPT ![scheduler.num].jobs = @ \cup {JobId}]
            /\ callers' = [callers EXCEPT ![t] = [pc |-> "start_start"]]
    /\ UNCHANGED <<reviewVars, readVars, engineVars, registryVars, auditVars, now, scheduler, nsched, intervals, nruns, halted>>

\* _scheduler.start() on whatever the global holds now: a scheduler that is
\* already running raises SchedulerAlreadyRunningError, None AttributeError
StartStart(t) ==
    /\ callers[t].pc = "start_start"
    /\ IF scheduler = PyNone \/ schedulers[scheduler.num].state = "running"
       THEN UNCHANGED schedulers
       ELSE schedulers' = [schedulers EXCEPT ![scheduler.num].state = "running"]
    /\ callers' = [callers EXCEPT ![t] = CallerIdle]
    /\ UNCHANGED <<reviewVars, readVars, engineVars, registryVars, auditVars, now, scheduler, nsched, intervals, nruns, halted>>

\* stop() is called and tests the global: without a scheduler it returns
StopCheck(t) ==
    /\ nsched < MaxSchedulerCalls
    /\ callers[t] = CallerIdle
    /\ nsched' = nsched + 1
    /\ IF scheduler = PyNone
       THEN /\ callers' = callers
            /\ halted' = \A u \in SchedulerCallers : callers[u].pc \notin StartPcs
       ELSE /\ callers' = [callers EXCEPT ![t] = [pc |-> "stop_shutdown"]]
            /\ halted' = halted
    /\ UNCHANGED <<reviewVars, readVars, engineVars, registryVars, auditVars, now, scheduler, schedulers, intervals, nruns>>

\* _scheduler.shutdown(wait=False): the scheduler stops scheduling and the
\* call returns without waiting for a job that is executing; a scheduler
\* that is not running raises SchedulerNotRunningError, None AttributeError
StopShutdown(t) ==
    /\ callers[t].pc = "stop_shutdown"
    /\ IF scheduler = PyNone \/ schedulers[scheduler.num].state # "running"
       THEN /\ callers' = [callers EXCEPT ![t] = CallerIdle]
            /\ UNCHANGED schedulers
       ELSE /\ schedulers' = [schedulers EXCEPT ![scheduler.num].state = "stopped",
                                                ![scheduler.num].due = FALSE]
            /\ callers' = [callers EXCEPT ![t] = [pc |-> "stop_clear"]]
    /\ UNCHANGED <<reviewVars, readVars, engineVars, registryVars, auditVars, now, scheduler, nsched, intervals, nruns, halted>>

\* _scheduler = None, and stop() returns
StopClear(t) ==
    /\ callers[t].pc = "stop_clear"
    /\ scheduler' = PyNone
    /\ callers' = [callers EXCEPT ![t] = CallerIdle]
    /\ halted' = \A u \in SchedulerCallers : callers[u].pc \notin StartPcs
    /\ UNCHANGED <<reviewVars, readVars, engineVars, registryVars, auditVars, now, schedulers, nsched, intervals, nruns>>

\* ten minutes pass: the interval trigger of every running scheduler that
\* holds the job comes due
IntervalElapses ==
    /\ intervals < MaxIntervals
    /\ intervals' = intervals + 1
    /\ schedulers' = [k \in DOMAIN schedulers |->
                         IF k \in LiveTimers
                         THEN [schedulers[k] EXCEPT !.due = TRUE]
                         ELSE schedulers[k]]
    /\ UNCHANGED <<reviewVars, readVars, engineVars, registryVars, auditVars, now, scheduler, callers, nsched, nruns, halted>>

\* a running scheduler handles its due job: it submits scrape_and_update to
\* its executor, or skips the firing when the one allowed instance is still
\* executing
JobFires(k) ==
    /\ k \in LiveTimers
    /\ schedulers[k].due
    /\ IF schedulers[k].busy
       THEN /\ schedulers' = [schedulers EXCEPT ![k].due = FALSE]
            /\ UNCHANGED nruns
       ELSE /\ schedulers' = [schedulers EXCEPT ![k].due = FALSE, ![k].busy = TRUE]
            /\ nruns' = nruns + 1
    /\ UNCHANGED <<reviewVars, readVars, engineVars, registryVars, auditVars, now, scheduler, callers, nsched, intervals, halted>>

\* the executing scrape_and_update returns
JobEnds(k) ==
    /\ k \in DOMAIN schedulers
    /\ schedulers[k].busy
    /\ schedulers' = [schedulers EXCEPT ![k].busy = FALSE]
    /\ UNCHANGED <<reviewVars, readVars, engineVars, registryVars, auditVars, now, scheduler, callers, nsched, intervals, nruns, halted>>

SchedulerIdle ==
    /\ scheduler = PyNone
    /\ schedulers = <<>>
    /\ callers = [t \in SchedulerCallers |-> CallerIdle]
    /\ nsched = 0
    /\ intervals = 0
    /\ nruns = 0
    /\ halted = FALSE

Reviewers == {"admin1", "admin2"}

ContributedIdle ==
    /\ contributed = PyNone
    /\ products = PyNone
    /\ reviews = [r \in Reviewers |-> Idle]

ReadIdle ==
    /\ available = [made |-> FALSE]
    /\ listers = [t \in Threads |-> Idle]

RegistryIdle ==
    /\ ReadIdle
    /\ ContributedIdle
    /\ store = [id \in {} |-> PyNone]
    /\ inflight = [t \in Threads |-> Idle]
    /\ run = NoRun
    /\ op = NoOp
    /\ nops = 0

EngineIdle ==
    /\ machine = example_machine
    /\ audit_log = <<>>
    /\ call = NoCall
    /\ ncalls = 0
    /\ observed = machine.initial_state
    /\ chained = TRUE
    /\ AuditIdle

\* the sources whose documents the collection holds while the registry is
\* exercised
RegistrySources == {"yfbm", "foodaid"}

\* a collection holding the documents of RegistrySources as seeded, the
\* cooldown_hours of one of them possibly configured by an operator
RegistryInit ==
    /\ EngineIdle
    /\ now = 0
    /\ \E d \in ConfiguredDocs(Builtin("yfbm")) :
          store = [id \in RegistrySources |->
                      IF id = "yfbm" THEN d ELSE SeedDoc(Builtin(id))]
    /\ inflight = [t \in Threads |-> Idle]
    /\ run = NoRun
    /\ op = NoOp
    /\ nops = 0
    /\ SchedulerIdle
    /\ ReadIdle
    /\ ContributedIdle

RegistryNext ==
    \/ \E id \in CallerIds : reset_cooldown(id)
    \/ \E id \in CallerIds : disable_source(id)
    \/ \E id \in CallerIds : enable_source(id)
    \/ \E id \in CallerIds : ManualFetch(id)
    \/ \E probe \in ProbeOutcomes : ManualProbeAnswers(probe)
    \/ \E refresh \in RefreshOutcomes : ManualRefreshReturns(refresh)
    \/ RunStart
    \/ RunStep
    \/ \E probe \in ProbeOutcomes : RunProbeAnswers(probe)
    \/ \E refresh \in RefreshOutcomes : RunRefreshReturns(refresh)
    \/ RunEnd
    \/ Tick

SpecRegistry == RegistryInit /\ [][RegistryNext]_vars

(***************************************************************************)
(* list_sources step by step, on a collection that starts empty.  The      *)
(* route handlers run one at a time on the event loop (thread "manual");   *)
(* the interval job's scrape_and_update calls list_sources on the          *)
(* scheduler's thread.  Each Firestore call is one step: the stream, each  *)
(* document(id).set of _seed_builtin_sources, and the second stream.       *)
(***************************************************************************)
\* document(id).set(doc): creates the document or replaces it whole
DocumentSet(st, id, doc) ==
    [i \in DOMAIN st \cup {id} |-> IF i = id THEN doc ELSE st[i]]

\* docs = list(stream()): a collection with documents is returned sorted,
\* an empty one sends the caller into _seed_builtin_sources
ListStreams(t) ==
    /\ listers[t] = Idle
    /\ inflight[t] = Idle
    /\ IF DOMAIN store # {}
       THEN /\ op' = [name |-> "list_sources", thread |-> t, seeded |-> FALSE,
                      ids |-> SortedByName(store, DOMAIN store)]
            /\ UNCHANGED listers
       ELSE /\ op' = [name |-> "list_stream_empty", thread |-> t]
            /\ listers' = [listers EXCEPT ![t] = [pc |-> "seeding", k |-> 1]]
    /\ UNCHANGED <<reviewVars, available, engineVars, schedulerVars, auditVars, now, store,
                   inflight, run, nops>>

\* one turn of the loop of _seed_builtin_sources
ListSeeds(t) ==
    /\ listers[t] # Idle
    /\ listers[t].pc = "seeding"
    /\ LET src == BUILTIN_SOURCES[listers[t].k]
       IN /\ store' = DocumentSet(store, src.id, SeedDoc(src))
          /\ op' = [name |-> "seed_set", thread |-> t, id |-> src.id]
    /\ listers' = [listers EXCEPT ![t] =
                      IF listers[t].k < Len(BUILTIN_SOURCES)
                      THEN [pc |-> "seeding", k |-> listers[t].k + 1]
                      ELSE [pc |-> "streaming_again"]]
    /\ UNCHANGED <<reviewVars, available, engineVars, schedulerVars, auditVars, now,
                   inflight, run, nops>>

\* the second stream after seeding; list_sources returns
ListReturns(t) ==
    /\ listers[t] # Idle
    /\ listers[t].pc = "streaming_again"
    /\ op' = [name |-> "list_sources", thread |-> t, seeded |-> TRUE,
              ids |-> SortedByName(store, DOMAIN store)]
    /\ listers' = [listers EXCEPT ![t] = Idle]
    /\ UNCHANGED <<reviewVars, available, engineVars, schedulerVars, auditVars, now, store,
                   inflight, run, nops>>

\* a fresh deployment: the collection holds no document
SeedingInit ==
    /\ EngineIdle
    /\ now = 0
    /\ store = [id \in {} |-> SeedDoc(Builtin("yfbm"))]
    /\ inflight = [t \in Threads |-> Idle]
    /\ run = NoRun
    /\ op = NoOp
    /\ nops = 0
    /\ SchedulerIdle
    /\ ReadIdle
    /\ ContributedIdle

SeedingNext ==
    \/ \E t \in Threads : ListStreams(t)
    \/ \E t \in Threads : ListSeeds(t)
    \/ \E t \in Threads : ListReturns(t)
    \/ \E id \in CallerIds : ManualFetch(id)
    \/ \E probe \in ProbeOutcomes : ManualProbeAnswers(probe)
    \/ \E refresh \in RefreshOutcomes : ManualRefreshReturns(refresh)

SpecSeeding == SeedingInit /\ [][SeedingNext]_vars

\* the registry under a started scheduler: the interval job fires for as
\* long as the process lives, while an administrator makes a bounded number
\* of requests
ScheduledNext ==
    \/ ScheduledRunStart
    \/ RunStep
    \/ \E probe \in ProbeOutcomes : RunProbeAnswers(probe)
    \/ \E refresh \in RefreshOutcomes : RunRefreshReturns(refresh)
    \/ RunEnd
    \/ Tick
    \/ \E id \in CallerIds : reset_cooldown(id)
    \/ \E id \in CallerIds : disable_source(id)
    \/ \E id \in CallerIds : ManualFetch(id)
    \/ \E probe \in ProbeOutcomes : ManualProbeAnswers(probe)
    \/ \E refresh \in RefreshOutcomes : ManualRefreshReturns(refresh)

\* the interval trigger keeps firing, the clock keeps advancing, the probe
\* answers within its 15 s timeout and the loop of a run keeps going
ScheduledFairness ==
    /\ WF_vars(ScheduledRunStart)
    /\ WF_vars(RunStep)
    /\ WF_vars(\E probe \in ProbeOutcomes : RunProbeAnswers(probe))
    /\ WF_vars(\E refresh \in RefreshOutcomes : RunRefreshReturns(refresh))
    /\ WF_vars(RunEnd)
    /\ WF_vars(Tick)

\* the sources whose documents the collection holds while the interval job
\* is followed over many firings
ScheduledSources == {"yfbm"}

\* a collection holding the documents of ScheduledSources as seeded, with a
\* cooldown_hours an operator configured
ScheduledInit ==
    /\ EngineIdle
    /\ now = 0
    /\ store = [id \in ScheduledSources |->
                   [SeedDoc(Builtin(id)) EXCEPT !.cooldown_hours = Num(1)]]
    /\ inflight = [t \in Threads |-> Idle]
    /\ run = NoRun
    /\ op = NoOp
    /\ nops = 0
    /\ SchedulerIdle
    /\ ReadIdle
    /\ ContributedIdle

SpecScheduled == ScheduledInit /\ [][ScheduledNext]_vars /\ ScheduledFairness

\* the scheduler module in a process whose threads call start() and stop()
SchedulerInit ==
    /\ EngineIdle
    /\ RegistryIdle
    /\ now = 0
    /\ SchedulerIdle

SchedulerNext ==
    \/ \E t \in SchedulerCallers : StartCheck(t)
    \/ \E t \in SchedulerCallers : StartCreate(t)
    \/ \E t \in SchedulerCallers : StartAddJob(t)
    \/ \E t \in SchedulerCallers : StartStart(t)
    \/ \E t \in SchedulerCallers : StopCheck(t)
    \/ \E t \in SchedulerCallers : StopShutdown(t)
    \/ \E t \in SchedulerCallers : StopClear(t)
    \/ IntervalElapses
    \/ \E k \in DOMAIN schedulers : JobFires(k)
    \/ \E k \in DOMAIN schedulers : JobEnds(k)

SpecScheduler == SchedulerInit /\ [][SchedulerNext]_vars

EngineInit ==
    /\ machine \in Machines
    /\ AuditIdle
    /\ audit_log = <<>>
    /\ call = NoCall
    /\ ncalls = 0
    /\ observed = machine.initial_state
    /\ chained = TRUE
    /\ now = 0
    /\ RegistryIdle
    /\ SchedulerIdle

EngineNext ==
    \/ \E current_state \in SuppliedStates(machine), trigger \in SuppliedTriggers(machine),
          actor_id \in Actors, context \in Contexts, raises \in BOOLEAN :
          Attempt(current_state, trigger, actor_id, context, raises)
    \/ EngineTick

SpecEngine == EngineInit /\ [][EngineNext]_vars

\* one instance whose callers keep the dicts they pass and the lists they
\* get back
AliasInit ==
    /\ machine = example_machine
    /\ audit_log = <<>>
    /\ call = NoCall
    /\ ncalls = 0
    /\ observed = machine.initial_state
    /\ chained = TRUE
    /\ now = 0
    /\ RegistryIdle
    /\ SchedulerIdle
    /\ heap \in [ContextObjects -> DictValues]
    /\ refs = <<>>
    /\ returned = <<>>
    /\ pending = [t \in EngineThreads |-> ThreadIdle]
    /\ finished = <<>>
    /\ twin_log = <<>>
    /\ seen = {}

AliasNext ==
    \/ \E obj \in ContextObjects, current_state \in machine.states,
          trigger \in TriggersOf(machine), actor_id \in Actors, raises \in BOOLEAN :
          AttemptHeld(obj, current_state, trigger, actor_id, raises)
    \/ \E obj \in ContextObjects, value \in DictValues : CallerUpdatesContext(obj, value)
    \/ get_audit_log
    \/ ReturnedListPop
    \/ \E j \in 1..MaxCalls, actor_id \in Actors : ReturnedEntrySet(j, actor_id)

SpecAlias == AliasInit /\ [][AliasNext]_vars

\* one instance shared by threads that call attempt_transition at once
ThreadsNext ==
    \/ \E t \in EngineThreads, current_state \in machine.states,
          trigger \in TriggersOf(machine), actor_id \in Actors,
          context \in ThreadContexts, raises \in BOOLEAN :
          CallStarts(t, current_state, trigger, actor_id, context, raises)
    \/ \E t \in EngineThreads : CallAppends(t)

SpecThreads == EngineInit /\ [][ThreadsNext]_vars

\* two instances of one table; the second has already recorded a transition
TwinInit ==
    /\ machine = example_machine
    /\ audit_log = <<>>
    /\ call = NoCall
    /\ ncalls = 0
    /\ observed = machine.initial_state
    /\ chained = TRUE
    /\ now = 0
    /\ RegistryIdle
    /\ SchedulerIdle
    /\ heap = [o \in {} |-> EmptyDict]
    /\ refs = <<>>
    /\ returned = <<>>
    /\ pending = [t \in EngineThreads |-> ThreadIdle]
    /\ finished = <<>>
    /\ twin_log = attempt_transition(example_machine, "pending", "approve", "admin1",
                                     [reason |-> [str |-> "used_up"]], FALSE, 0).appended
    /\ seen = {}

TwinNext ==
    \E inst \in Instances, current_state \in SuppliedStates(machine),
          trigger \in TriggersOf(machine), actor_id \in Actors,
          context \in ThreadContexts, raises \in BOOLEAN :
          TwinAttempt(inst, current_state, trigger, actor_id, context, raises)

SpecTwin == TwinInit /\ [][TwinNext]_vars

\* what callers of the item lifecycle pass: states and triggers around
\* active, and contexts with the two reasons, another one, and none
LifecycleStates == {"active", "scanned"}
LifecycleTriggers == {"consume", "discard", "expire"}
LifecycleContexts ==
    {PyNone, EmptyDict, [reason |-> [str |-> "used_up"]],
     [reason |-> [str |-> "discarded"]], [reason |-> [str |-> "expired"]],
     [note |-> [str |-> "used_up"]]}

LifecycleInit ==
    /\ machine = item_lifecycle
    /\ AuditIdle
    /\ audit_log = <<>>
    /\ call = NoCall
    /\ ncalls = 0
    /\ observed = machine.initial_state
    /\ chained = TRUE
    /\ now = 0
    /\ RegistryIdle
    /\ SchedulerIdle

LifecycleNext ==
    \/ \E current_state \in LifecycleStates, trigger \in LifecycleTriggers,
          actor_id \in Actors, context \in LifecycleContexts :
          Attempt(current_state, trigger, actor_id, context, FALSE)
    \/ EngineTick

SpecLifecycle == LifecycleInit /\ [][LifecycleNext]_vars

(***************************************************************************)
(* One entity followed through its workflow: a caller reads the entity's   *)
(* stored status, hands it to attempt_transition and stores the returned   *)
(* state when the call succeeds; on failure it returns without writing.    *)
(* `observed` is the stored status.                                        *)
(***************************************************************************)
MaxEntitySteps == 4

EntityActors == {"admin1"}
EntityContexts == {PyNone, [reason |-> [str |-> "used_up"]],
                   [reason |-> [str |-> "discarded"]]}

EntityStep(trigger, actor_id, context) ==
    /\ ncalls < MaxEntitySteps
    /\ LET out == attempt_transition(machine, observed, trigger, actor_id,
                                     context, FALSE, now)
       IN /\ audit_log' = audit_log \o out.appended
          /\ call' = CallRecord(observed, trigger, actor_id, context, FALSE, now, out)
          /\ observed' = IF out.success THEN out.state ELSE observed
    /\ ncalls' = ncalls + 1
    /\ UNCHANGED <<reviewVars, available, listers, machine, chained, now, registryVars,
                   schedulerVars, auditVars>>

\* a call of get_available_triggers: its argument and what it returned
GetAvailableTriggers(current_state) ==
    /\ available' = [made |-> TRUE, current_state |-> current_state,
                     result |-> get_available_triggers(machine, current_state)]
    /\ UNCHANGED <<reviewVars, listers, engineVars, now, registryVars, schedulerVars, auditVars>>

EntityInit(m) ==
    /\ machine = m
    /\ AuditIdle
    /\ audit_log = <<>>
    /\ call = NoCall
    /\ ncalls = 0
    /\ observed = m.initial_state
    /\ chained = TRUE
    /\ now = 0
    /\ RegistryIdle
    /\ SchedulerIdle

EntityNext ==
    \/ \E trigger \in SuppliedTriggers(machine), actor_id \in EntityActors,
          context \in EntityContexts :
          EntityStep(trigger, actor_id, context)
    \/ \E current_state \in SuppliedStates(machine) :
          GetAvailableTriggers(current_state)

PipelineInit == EntityInit(foodbank_pipeline)
SpecPipeline == PipelineInit /\ [][EntityNext]_vars

ReviewInit == EntityInit(review_workflow)
SpecReview == ReviewInit /\ [][EntityNext]_vars

ItemInit == EntityInit(item_lifecycle)
SpecItem == ItemInit /\ [][EntityNext]_vars

(***************************************************************************)
(* The three workflow tables of the application, an entity of any of them  *)
(* followed from any of its declared states.                               *)
(***************************************************************************)
WorkflowMachines == {review_workflow, item_lifecycle, foodbank_pipeline}

TablesInit ==
    /\ machine \in WorkflowMachines
    /\ observed \in machine.states
    /\ AuditIdle
    /\ audit_log = <<>>
    /\ call = NoCall
    /\ ncalls = 0
    /\ chained = TRUE
    /\ now = 0
    /\ RegistryIdle
    /\ SchedulerIdle

TablesNext ==
    \E trigger \in SuppliedTriggers(machine), actor_id \in EntityActors,
       context \in EntityContexts :
       EntityStep(trigger, actor_id, context)

SpecTables == TablesInit /\ [][TablesNext]_vars

(***************************************************************************)
(* Review of one contributed product (contributed_product_service.py,      *)
(* barcode_service.contribute_product).  The status of the product lives   *)
(* in its contributed_products document; approve and reject read it, ask   *)
(* review_workflow, and write.  Neither uses a transaction, a lock or a    *)
(* precondition on its write, so the requests of two reviewers served by   *)
(* different workers of the application interleave between their          *)
(* Firestore calls; each Firestore call is one step, the in-memory         *)
(* attempt_transition being part of the step of the read it follows.       *)
(* audit_log holds the audit entries in the order they were appended.      *)
(***************************************************************************)
Barcode == "b1"

\* set(fields, merge=True) and update(fields) on an existing document
MergeFields(doc, fields) ==
    [k \in DOMAIN doc \cup DOMAIN fields |->
        IF k \in DOMAIN fields THEN fields[k] ELSE doc[k]]

\* the fields of a contribution the model keeps
Contribution == [product_name |-> "milk", status |-> "pending_review"]

\* a document written before contributions carried a status
LegacyContribution == [product_name |-> "milk"]

\* product.get("status", "pending_review")
StatusOf(product) ==
    IF "status" \in DOMAIN product THEN product.status ELSE "pending_review"

ReviewContext(trigger) ==
    IF trigger = "approve" THEN [barcode |-> Str(Barcode)]
    ELSE [barcode |-> Str(Barcode), reason |-> Str("")]

\* a returned approve or reject call: the status it read, what it returned
ReviewOp(name, reviewer, read, result) ==
    [name |-> name, reviewer |-> reviewer, read |-> read, result |-> result]

\* POST /contribute: contribute_product writes the contribution over
\* whatever the document holds, status included
ContributeProduct ==
    /\ nops < MaxOps
    /\ Started
    /\ contributed' = IF contributed = PyNone THEN Contribution
                      ELSE MergeFields(contributed, Contribution)
    /\ op' = [name |-> "contribute_product"]
    /\ UNCHANGED <<products, reviews, readVars, engineVars, schedulerVars,
                   auditVars, now, store, inflight, run>>

\* approve(barcode, uid) or reject(barcode, uid): get_product, then the
\* attempt on review_workflow; the call returns False when the product is
\* missing or the workflow refuses
ReviewReads(reviewer, trigger) ==
    /\ nops < MaxOps
    /\ Started
    /\ reviews[reviewer] = Idle
    /\ IF contributed = PyNone
       THEN /\ op' = ReviewOp(trigger, reviewer, "no product", FALSE)
            /\ UNCHANGED <<reviews, audit_log, call>>
       ELSE LET current_status == StatusOf(contributed)
                out == attempt_transition(machine, current_status, trigger,
                                          reviewer, ReviewContext(trigger),
                                          FALSE, now)
            IN /\ audit_log' = audit_log \o out.appended
               /\ call' = CallRecord(current_status, trigger, reviewer,
                                     ReviewContext(trigger), FALSE, now, out)
               /\ IF out.success
                  THEN /\ reviews' = [reviews EXCEPT ![reviewer] =
                              [pc |-> IF trigger = "approve" THEN "copying"
                                      ELSE "updating",
                               trigger |-> trigger, read |-> current_status,
                               new_state |-> out.state]]
                       /\ op' = [name |-> "review_attempted", reviewer |-> reviewer]
                  ELSE /\ op' = ReviewOp(trigger, reviewer, current_status, FALSE)
                       /\ UNCHANGED reviews
    /\ UNCHANGED <<contributed, products, readVars, machine, ncalls, observed,
                   chained, schedulerVars, auditVars, now, store, inflight, run>>

\* approve copies the product into the products collection
ApproveCopies(reviewer) ==
    /\ reviews[reviewer] # Idle
    /\ reviews[reviewer].pc = "copying"
    /\ products' = [barcode |-> Barcode, source |-> "contributed"]
    /\ reviews' = [reviews EXCEPT ![reviewer].pc = "updating"]
    /\ op' = [name |-> "product_copied", reviewer |-> reviewer]
    /\ UNCHANGED <<contributed, readVars, engineVars, schedulerVars, auditVars,
                   now, store, inflight, run, nops>>

\* the update of the contributed product's status; the call returns True
ReviewUpdates(reviewer) ==
    /\ reviews[reviewer] # Idle
    /\ reviews[reviewer].pc = "updating"
    /\ contributed' = MergeFields(contributed,
                          [status |-> reviews[reviewer].new_state,
                           reviewed_by |-> reviewer])
    /\ op' = ReviewOp(reviews[reviewer].trigger, reviewer,
                      reviews[reviewer].read, TRUE)
    /\ reviews' = [reviews EXCEPT ![reviewer] = Idle]
    /\ UNCHANGED <<products, readVars, engineVars, schedulerVars, auditVars,
                   now, store, inflight, run, nops>>

\* the barcode was never contributed, was contributed and awaits review, or
\* has a document without a status
ContributedInit ==
    /\ machine = review_workflow
    /\ AuditIdle
    /\ audit_log = <<>>
    /\ call = NoCall
    /\ ncalls = 0
    /\ observed = machine.initial_state
    /\ chained = TRUE
    /\ now = 0
    /\ store = [id \in {} |-> PyNone]
    /\ inflight = [t \in Threads |-> Idle]
    /\ run = NoRun
    /\ op = NoOp
    /\ nops = 0
    /\ ReadIdle
    /\ SchedulerIdle
    /\ contributed \in {PyNone, Contribution, LegacyContribution}
    /\ products = PyNone
    /\ reviews = [r \in Reviewers |-> Idle]

ContributedNext ==
    \/ ContributeProduct
    \/ \E reviewer \in Reviewers, trigger \in {"approve", "reject"} :
          ReviewReads(reviewer, trigger)
    \/ \E reviewer \in Reviewers : ApproveCopies(reviewer)
    \/ \E reviewer \in Reviewers : ReviewUpdates(reviewer)

SpecContributed == ContributedInit /\ [][ContributedNext]_vars

(***************************************************************************)
(* Properties of attempt_transition.                                       *)
(***************************************************************************)
\* the table holds a transition for (current_state, trigger)
HasTransition(m, current_state, trigger) ==
    \E i \in 1..Len(m.transitions) :
        /\ m.transitions[i].from_state = current_state
        /\ m.transitions[i].trigger = trigger

\* declaration indices of the transitions for (current_state, trigger)
Matching(m, current_state, trigger) ==
    {i \in 1..Len(m.transitions) :
        /\ m.transitions[i].from_state = current_state
        /\ m.transitions[i].trigger = trigger}

\* those whose guard is absent or passes on the context
Passing(m, current_state, trigger, ctx) ==
    {i \in Matching(m, current_state, trigger) :
        \/ m.transitions[i].guard = "None"
        \/ GuardHolds(m.transitions[i].guard, ctx)}

Least(S) == CHOOSE x \in S : \A y \in S : x <= y

SeqToSet(q) == {q[i] : i \in 1..Len(q)}

CallMatching == Matching(machine, call.current_state, call.trigger)
CallPassing ==
    Passing(machine, call.current_state, call.trigger, ContextOrEmpty(call.context))

\* C1: a call returning success=true appends exactly one audit entry, whose
\* from_state is the supplied current_state, whose to_state is the returned
\* state and which carries the supplied trigger and actor_id; a call
\* returning success=false leaves the audit log unchanged.
C1_AuditExactlyOnSuccess ==
    [][ncalls' # ncalls =>
         IF call'.success
         THEN /\ Len(audit_log') = Len(audit_log) + 1
              /\ SubSeq(audit_log', 1, Len(audit_log)) = audit_log
              /\ LET e == audit_log'[Len(audit_log')]
                 IN /\ e.from_state = call'.current_state
                    /\ e.to_state = call'.state
                    /\ e.trigger = call'.trigger
                    /\ e.actor_id = call'.actor_id
         ELSE audit_log' = audit_log]_vars

\* a successful call by a non-default actor followed by a failed call
C1_Witness ==
    /\ ncalls = 2
    /\ Len(audit_log) = 1
    /\ audit_log[1].actor_id = "admin1"
    /\ call.made /\ ~call.success

\* C2: a call for a (current_state, trigger) pair with no transition in the
\* table, a current_state outside the declared states included, returns
\* success=false, the unchanged current_state and the no-transition error,
\* and evaluates no guard and no action.
C2_NoTransition ==
    (call.made /\ ~HasTransition(machine, call.current_state, call.trigger)) =>
        /\ ~call.success
        /\ call.state = call.current_state
        /\ call.error = NoTransitionError(call.trigger, call.current_state)
        /\ call.guards = <<>>
        /\ call.actions = <<>>

C2_Witness ==
    /\ call.made
    /\ call.current_state \notin machine.states
    /\ call.trigger \in TriggersOf(machine)
    /\ call.error.kind = "No transition"

\* C3: when transitions exist for (current_state, trigger) and the guard of
\* every one of them fails on the context, the call returns success=false,
\* the unchanged current_state and the guard-not-met error, which differs
\* from the no-transition error, and executes no action.
C3_GuardNotMet ==
    (call.made /\ CallMatching # {} /\ CallPassing = {}) =>
        /\ ~call.success
        /\ call.state = call.current_state
        /\ call.error.kind = "Guard conditions not met"
        /\ call.error.trigger = call.trigger
        /\ call.error.kind # NoTransitionError(call.trigger, call.current_state).kind
        /\ call.actions = <<>>

C3_Witness ==
    /\ call.made
    /\ Cardinality(CallMatching) = 2
    /\ CallPassing = {}
    /\ call.guards = <<1, 2>>

\* C4: when the action of the selected candidate raises, the call returns
\* success=false, the unchanged current_state and the action-failure error,
\* appends no audit entry and tries no later candidate.
C4_ActionFailureAborts ==
    [][(/\ ncalls' # ncalls
        /\ call'.raises
        /\ Passing(machine, call'.current_state, call'.trigger,
                   ContextOrEmpty(call'.context)) # {}
        /\ machine.transitions[Least(Passing(machine, call'.current_state, call'.trigger,
                   ContextOrEmpty(call'.context)))].action # "None") =>
         LET sel == Least(Passing(machine, call'.current_state, call'.trigger,
                                  ContextOrEmpty(call'.context)))
         IN /\ ~call'.success
            /\ call'.state = call'.current_state
            /\ call'.error.kind = "Action failed"
            /\ audit_log' = audit_log
            /\ call'.actions = <<sel>>
            /\ \A i \in SeqToSet(call'.guards) : i <= sel]_vars

\* the first candidate's action raised while a later candidate would pass
C4_Witness ==
    /\ call.made
    /\ call.raises
    /\ call.error.kind = "Action failed"
    /\ Cardinality(CallPassing) = 2

\* C5: among the transitions sharing (from_state, trigger) the first in
\* declaration order whose guard passes or is absent is applied: its
\* to_state is returned, its action is the only one executed, no action of
\* a candidate whose guard failed runs, and no later candidate is evaluated.
C5_FirstPassingWins ==
    (call.made /\ CallPassing # {}) =>
        LET sel == Least(CallPassing)
            t == machine.transitions[sel]
        IN /\ call.actions = (IF t.action # "None" THEN <<sel>> ELSE <<>>)
           /\ SeqToSet(call.guards) =
                 {i \in CallMatching : i <= sel /\ machine.transitions[i].guard # "None"}
           /\ (~(call.raises /\ t.action # "None") =>
                 /\ call.success
                 /\ call.state = t.to_state)

\* two candidates pass and the first is applied; or the first fails and the
\* second is applied
C5_Witness ==
    /\ call.made
    /\ call.success
    /\ \/ Cardinality(CallPassing) = 2 /\ call.guards = <<1>> /\ call.actions = <<1>>
       \/ CallPassing = {2} /\ call.guards = <<1, 2>> /\ call.state = "pending"

\* replaying the audit log: each entry moves the replayed state from its
\* from_state to its to_state
RECURSIVE Replay(_, _)
Replay(state, log) ==
    IF log = <<>> THEN state
    ELSE IF Head(log).from_state = state
         THEN Replay(Head(log).to_state, Tail(log))
         ELSE "<no entry applies>"

\* C6 as stated: after any calls, replaying the audit log from initial_state
\* gives the state returned by the last successful call.
C6_RoundTripAnyCalls ==
    audit_log # <<>> => Replay(machine.initial_state, audit_log) = observed

\* C6, amended: when every successful call was given the state returned by
\* the previous successful call (initial_state for the first), replaying the
\* audit log from initial_state gives the state returned by the last
\* successful call.
C6_RoundTripChained ==
    chained => Replay(machine.initial_state, audit_log) = observed

C6_Witness ==
    /\ chained
    /\ Len(audit_log) = 2
    /\ audit_log[1].to_state # machine.initial_state

\* C17 as stated: the audit log never gets shorter and no step changes the
\* position or a field value of an entry it holds, whatever callers do with
\* the lists get_audit_log returned and with the dicts they passed as context
C17_AuditLogAppendOnly ==
    [][/\ Len(audit_log') >= Len(audit_log)
       /\ \A i \in 1..Len(audit_log) : audit_log'[i] = audit_log[i]]_vars

\* the number of items of seq equal to x
Count(seq, x) == Cardinality({i \in DOMAIN seq : seq[i] = x})

\* from_state, to_state, trigger and actor_id of the audit entries
EntryFields ==
    [i \in DOMAIN audit_log |->
        [from_state |-> audit_log[i].from_state, to_state |-> audit_log[i].to_state,
         trigger |-> audit_log[i].trigger, actor_id |-> audit_log[i].actor_id]]

\* the same four fields of the calls that returned success, as each call
\* supplied and returned them
SucceededFields ==
    LET idx == {i \in DOMAIN finished : finished[i].success}
    IN {[at |-> i, from_state |-> finished[i].from_state,
         to_state |-> finished[i].to_state, trigger |-> finished[i].trigger,
         actor_id |-> finished[i].actor_id] : i \in idx}

\* C18: whatever way attempt_transition calls of several threads on one
\* instance interleave, the audit log holds exactly one entry per call that
\* returned success and none for the others: as many entries as such calls,
\* and each combination of from_state, to_state, trigger and actor_id as
\* often as calls with these fields succeeded
C18_NoLostAppend ==
    /\ Len(audit_log) = Cardinality(SucceededFields)
    /\ \A i \in DOMAIN audit_log :
          Count(EntryFields, EntryFields[i]) =
             Cardinality({c \in SucceededFields :
                            /\ c.from_state = EntryFields[i].from_state
                            /\ c.to_state = EntryFields[i].to_state
                            /\ c.trigger = EntryFields[i].trigger
                            /\ c.actor_id = EntryFields[i].actor_id})

\* two calls that were both past their guards before either appended have
\* returned
C18_Witness ==
    /\ Len(audit_log) >= 2
    /\ \A t \in EngineThreads : pending[t] = ThreadIdle
    /\ \E i \in DOMAIN finished : finished[i].success /\ finished[i].overlapped

CallReasonIs(reason) ==
    /\ call.context # PyNone
    /\ "reason" \in DOMAIN call.context
    /\ call.context.reason = [str |-> reason]

\* the latest call succeeded into to_state and recorded it
CallSucceededInto(to_state) ==
    /\ call.success
    /\ call.state = to_state
    /\ call.error = NoError
    /\ audit_log # <<>>
    /\ audit_log[Len(audit_log)].from_state = "active"
    /\ audit_log[Len(audit_log)].to_state = to_state

\* the latest call failed on its guards and left the state active
CallRefusedByGuard ==
    /\ ~call.success
    /\ call.state = "active"
    /\ call.error.kind = "Guard conditions not met"

\* C20: in the item lifecycle, from active, consume succeeds into consumed
\* exactly when the reason of the context is "used_up" and discard succeeds
\* into discarded exactly when it is "discarded"; with another reason, no
\* reason or no context the call fails with the guard error and the state
\* returned is active
C20_ConsumeAndDiscardNeedTheirReason ==
    (call.made /\ call.current_state = "active") =>
        /\ call.trigger = "consume" =>
              IF CallReasonIs("used_up") THEN CallSucceededInto("consumed")
              ELSE CallRefusedByGuard
        /\ call.trigger = "discard" =>
              IF CallReasonIs("discarded") THEN CallSucceededInto("discarded")
              ELSE CallRefusedByGuard

\* consume was refused for the reason that lets discard through
C20_Witness ==
    /\ call.made
    /\ call.current_state = "active"
    /\ call.trigger = "consume"
    /\ CallReasonIs("discarded")
    /\ ~call.success
    /\ audit_log # <<>>
    /\ audit_log[1].to_state = "consumed"

(***************************************************************************)
(* Properties of the source registry.                                      *)
(***************************************************************************)
\* this step is the return of a fetch_source call
FetchReturned ==
    /\ op'.name = "fetch_source"
    /\ <<inflight, run, nops>>' # <<inflight, run, nops>>

\* C7 as stated: every fetch call that returns success=false leaves the
\* source in cooldown, with last_error = now, the error message, and
\* cooldown_until = now + cooldown_hours*3600.
C7_EveryFailedFetchCoolsDown ==
    [][(FetchReturned /\ ~op'.result.success /\ op'.id \in DOMAIN store) =>
         LET before == store[op'.id]
             after == store'[op'.id]
             hours == IF "cooldown_hours" \in DOMAIN before
                      THEN before.cooldown_hours.num ELSE 6
         IN /\ after.status = "cooldown"
            /\ after.last_error = Num(now')
            /\ after.error_message = Str(op'.result.error)
            /\ after.cooldown_until = Num(now' + hours * 3600)]_vars

\* C7, amended: every fetch call that made its probe and returns
\* success=false leaves the source in cooldown, with last_error = now, the
\* failure reason as error_message and cooldown_until = now +
\* cooldown_hours*3600 (the source's own value, 6 when it stores none); a
\* call that returns success=false without a probe (unknown or disabled
\* source) changes no record.
C7_FailedProbeCoolsDown ==
    [][(FetchReturned /\ ~op'.result.success) =>
         IF op'.probe = "none"
         THEN store' = store
         ELSE LET before == store[op'.id]
                  after == store'[op'.id]
                  hours == IF "cooldown_hours" \in DOMAIN before
                           THEN before.cooldown_hours.num ELSE 6
              IN /\ after.status = "cooldown"
                 /\ after.last_error = Num(now')
                 /\ after.error_message = Str(op'.result.error)
                 /\ after.cooldown_until = Num(now' + hours * 3600)]_vars

\* a failed probe, at a time after 0, of a source with its own cooldown_hours
\* or with none stored
C7_Witness ==
    /\ op.name = "fetch_source"
    /\ op.probe \in {"http_error", "exception"}
    /\ ~op.result.success
    /\ \E id \in DOMAIN store :
          /\ id = op.id
          /\ store[id].last_error = Num(3600)
          /\ \/ "cooldown_hours" \notin DOMAIN store[id] /\
                store[id].cooldown_until = Num(3600 + 6 * 3600)
             \/ "cooldown_hours" \in DOMAIN store[id] /\
                store[id].cooldown_hours = Num(1) /\
                store[id].cooldown_until = Num(3600 + 3600)

\* C8: whenever the probe of a fetch succeeds, the source ends the call
\* healthy, with cooldown_until and error_message cleared and last_success =
\* now, and fetch returns success=true with the refreshed count, whatever
\* the refresh of the dependent entries gives.
C8_GoodProbeMarksHealthy ==
    [][(FetchReturned /\ op'.probe = "ok") =>
         /\ store'[op'.id].status = "healthy"
         /\ store'[op'.id].cooldown_until = PyNone
         /\ store'[op'.id].error_message = PyNone
         /\ store'[op'.id].last_success = Num(now')
         /\ op'.result.success
         /\ op'.refresh >= 0 => op'.result.new_count = op'.refresh]_vars

C10_CooldownIffTimerRunning ==
    \A id \in DOMAIN store :
        store[id].status = "cooldown" <=>
            (store[id].cooldown_until # PyNone /\ now < store[id].cooldown_until.num)

\* C10, amended: status = cooldown implies cooldown_until is set, and
\* cooldown_until set implies status is cooldown or disabled; cooldown_until
\* need not lie in the future.
C10_CooldownImpliesTimerSet ==
    \A id \in DOMAIN store :
        /\ store[id].status = "cooldown" => store[id].cooldown_until # PyNone
        /\ store[id].cooldown_until # PyNone => store[id].status \in {"cooldown", "disabled"}

\* a source still marked cooldown after its timer ran out
C10_Witness ==
    \E id \in DOMAIN store :
        /\ store[id].status = "cooldown"
        /\ store[id].cooldown_until # PyNone
        /\ now >= store[id].cooldown_until.num

(***************************************************************************)
(* Properties of the scheduled run.                                        *)
(***************************************************************************)
\* this step is one turn of the loop of scrape_and_update
LoopTurn ==
    /\ run.active
    /\ inflight["scheduler"] = Idle
    /\ run.i <= Len(run.sources)
    /\ run'.active
    /\ (run'.i = run.i + 1 \/ inflight'["scheduler"] # Idle)

\* the stored status of the source is cooldown and its timer has run out
ElapsedCooldown(source, t) ==
    /\ source.status = "cooldown"
    /\ source.cooldown_until # PyNone
    /\ t >= source.cooldown_until.num

\* the source is in cooldown and its timer runs out within the hours the
\* clock of the model covers
Cooling(id) ==
    /\ store[id].status = "cooldown"
    /\ store[id].cooldown_until # PyNone
    /\ store[id].cooldown_until.num <= MaxHours * HOUR

\* a later failure moved the timer of the source past those hours
PastClock(id) ==
    /\ store[id].cooldown_until # PyNone
    /\ store[id].cooldown_until.num > MaxHours * HOUR

\* a fetch_source call is waiting on its probe of the source
ProbeUnderWay(id) ==
    \E t \in Threads : inflight[t] = [pc |-> "probing", id |-> id]

\* C11: eligibility comes from the timestamp, not from the stored status: a
\* run whose listing holds a source with status cooldown and an elapsed
\* cooldown_until calls fetch_source on it, and probes it unless it was
\* disabled meanwhile; and while the interval job keeps firing and the clock
\* keeps advancing, every source in cooldown is eventually probed again,
\* with no reset needed, unless an administrator disables it (or a failure
\* of a call already under way restarts its timer)
C11_ElapsedCooldownIsProbed ==
    /\ [][(LoopTurn /\ ElapsedCooldown(run.sources[run.i], now)) =>
            /\ op'.name \in {"probe_start", "fetch_source"}
            /\ op'.id = run.sources[run.i].id
            /\ op'.thread = "scheduler"
            /\ (store[run.sources[run.i].id].status # "disabled"
                   => op'.name = "probe_start")]_vars
    /\ \A id \in ScheduledSources :
          [](Cooling(id) => <>(\/ ProbeUnderWay(id)
                               \/ store[id].status = "disabled"
                               \/ PastClock(id)))

C11_Witness ==
    \E id \in DOMAIN store :
        /\ ElapsedCooldown(store[id], now)
        /\ op = [name |-> "probe_start", thread |-> "scheduler", id |-> id]

\* this step is taken by the thread that runs scrape_and_update
SchedulerStep ==
    run' # run \/ inflight'["scheduler"] # inflight["scheduler"]

\* the listing says the source is to be skipped at time t
ListedAsSkipped(source, t) ==
    \/ source.status = "disabled"
    \/ (source.cooldown_until # PyNone /\ t < source.cooldown_until.num)

\* C12: a run of scrape_and_update takes the listed sources one at a time in
\* the order of the listing; it skips a source listed as disabled or still in
\* cooldown and writes nothing for it, and calls fetch_source once on every
\* other listed source and on nothing else; while a fetch is in flight the
\* run only writes the record of that source; the total starts at 0, grows
\* by the new_count of each fetch (0 for a failed one) and is what the run
\* returns after the last listed source had its turn
C12_RunFetchesEligibleOnce ==
    [][/\ (~run.active /\ run'.active) =>
            /\ run'.i = 1
            /\ run'.total = 0
            /\ store' = store
       /\ LoopTurn =>
            /\ run'.sources = run.sources
            /\ store' = store
            /\ IF ListedAsSkipped(run.sources[run.i], now)
               THEN /\ op' = [name |-> "run_skip", id |-> run.sources[run.i].id]
                    /\ run'.i = run.i + 1
                    /\ run'.total = run.total
                    /\ inflight' = inflight
               ELSE /\ op'.name \in {"probe_start", "fetch_source"}
                    /\ op'.thread = "scheduler"
                    /\ op'.id = run.sources[run.i].id
                    /\ (op'.name = "probe_start") =
                          (inflight'["scheduler"] =
                             [pc |-> "probing", id |-> run.sources[run.i].id])
                    /\ (op'.name = "probe_start") = (run'.i = run.i)
       /\ (SchedulerStep /\ inflight["scheduler"] # Idle) =>
            /\ run.active /\ run'.active
            /\ inflight["scheduler"].id = run.sources[run.i].id
            /\ run'.sources = run.sources
            /\ \A id \in DOMAIN store \ {inflight["scheduler"].id} :
                   store'[id] = store[id]
            /\ IF inflight'["scheduler"] = Idle
               THEN op'.name = "fetch_source" /\ run'.i = run.i + 1
               ELSE run' = run
       /\ (SchedulerStep /\ op'.name = "fetch_source") =>
            /\ run'.total = run.total + op'.result.new_count
            /\ (~op'.result.success => op'.result.new_count = 0)
       /\ (run.active /\ ~run'.active) =>
            /\ run.i = Len(run.sources) + 1
            /\ inflight["scheduler"] = Idle
            /\ op' = [name |-> "run_end", total |-> run.total]
            /\ store' = store]_vars

\* a run over one disabled source and one healthy source whose probe failed
\* has returned 0
C12_Witness ==
    /\ op = [name |-> "run_end", total |-> 0]
    /\ store["foodaid"].status = "disabled"
    /\ store["foodaid"].last_error = PyNone
    /\ store["yfbm"].status = "cooldown"
    /\ store["yfbm"].last_error # PyNone

\* C15: a fetch_source call that returns success=false leaves every field
\* of every other source record as it was and adds or removes no record;
\* when the call was made by a run, the run goes on to its next listed
\* source, and a run only ends after every listed source had its turn
C15_FailureTouchesOneRecord ==
    [][/\ (FetchReturned /\ ~op'.result.success) =>
            /\ DOMAIN store' = DOMAIN store
            /\ \A id \in DOMAIN store \ {op'.id} : store'[id] = store[id]
            /\ (op'.thread = "scheduler" =>
                   /\ run'.active
                   /\ run'.sources = run.sources
                   /\ run'.i = run.i + 1
                   /\ inflight'["scheduler"] = Idle)
       /\ (run.active /\ ~run'.active) => run.i = Len(run.sources) + 1]_vars

\* a run whose first fetch failed is probing its second source
C15_Witness ==
    /\ run.active
    /\ run.i = 2
    /\ store[run.sources[1].id].status = "cooldown"
    /\ store[run.sources[1].id].last_error # PyNone
    /\ store[run.sources[2].id].last_error = PyNone
    /\ op = [name |-> "probe_start", thread |-> "scheduler", id |-> run.sources[2].id]

\* this step is a reset_cooldown or an enable_source call
ResetOrEnable ==
    /\ nops' = nops + 1
    /\ op'.name \in {"reset_cooldown", "enable_source"}

\* C16: reset_cooldown(id) and enable_source(id) on a stored source,
\* whatever its status was, return true and leave it healthy with
\* cooldown_until and error_message null and its other fields as they were,
\* so that a run listing it at any time does not skip it; on an id that is
\* not stored they return false and the collection is as it was
C16_ResetAndEnableMakeEligible ==
    [][ResetOrEnable =>
         /\ op'.ok = (op'.id \in DOMAIN store)
         /\ DOMAIN store' = DOMAIN store
         /\ \A id \in DOMAIN store \ {op'.id} : store'[id] = store[id]
         /\ op'.ok =>
              /\ store'[op'.id].status = "healthy"
              /\ store'[op'.id].cooldown_until = PyNone
              /\ store'[op'.id].error_message = PyNone
              /\ \A f \in DOMAIN store[op'.id] \
                        {"status", "cooldown_until", "error_message"} :
                     store'[op'.id][f] = store[op'.id][f]
              /\ DOMAIN store'[op'.id] = DOMAIN store[op'.id]
              /\ \A t \in 0..(MaxHours * HOUR) :
                     ~ListedAsSkipped(store'[op'.id], t)]_vars

\* a source that had failed and was disabled or in cooldown has been reset
\* or enabled
C16_Witness ==
    /\ op.name \in {"reset_cooldown", "enable_source"}
    /\ op.ok
    /\ store[op.id].status = "healthy"
    /\ store[op.id].last_error # PyNone

(***************************************************************************)
(* Properties of the background scheduler.                                 *)
(***************************************************************************)
\* C13 as stated: after any start() and stop() calls, overlapping ones
\* included, at most one timer is live, so as many intervals give at most
\* as many scheduled runs
C13_AtMostOneTimerLive ==
    /\ Cardinality(LiveTimers) <= 1
    /\ nruns <= intervals

\* this step is taken by a thread inside stop()
StopStep ==
    \E t \in SchedulerCallers :
        callers[t].pc \in {"stop_shutdown", "stop_clear"} /\ callers'[t] # callers[t]

\* C14 as stated: once a stop() has returned and until start() is called
\* again no scheduled run begins, and no step of stop() ends or aborts a run
\* that is executing
C14_NoRunAfterStop ==
    [][/\ (halted => nruns' = nruns)
       /\ (StopStep => \A k \in DOMAIN schedulers :
                           schedulers'[k].busy = schedulers[k].busy)]_vars

(***************************************************************************)
(* Properties of the workflow tables, an entity followed from its initial  *)
(* state.                                                                  *)
(***************************************************************************)
\* the latest call was made on an entity whose stored status was s
CalledFrom(s) == call.made /\ call.current_state = s

\* C21: in the food-bank pipeline "removed" is terminal: no trigger is
\* available from it, every attempt made on a removed entity fails with the
\* no-transition error naming "removed" and returns "removed", and the stored
\* status of a removed entity never changes again.
C21_RemovedIsTerminal ==
    /\ [](get_available_triggers(machine, "removed") = {})
    /\ []((available.made /\ available.current_state = "removed")
            => available.result = {})
    /\ [](CalledFrom("removed") =>
            /\ ~call.success
            /\ call.state = "removed"
            /\ call.error = NoTransitionError(call.trigger, "removed"))
    /\ [][observed = "removed" => observed' = "removed"]_vars

\* an entity was removed and a reactivation was then attempted on it
C21_Witness ==
    /\ observed = "removed"
    /\ CalledFrom("removed")
    /\ call.trigger = "reactivate"
    /\ Len(audit_log) = 3

\* C22: get_available_triggers(s) returns exactly the triggers for which the
\* table holds a transition from s, which are exactly the triggers an
\* attempt from s does not refuse with the no-transition error, and the call
\* changes neither the audit log nor the table.
C22_AvailableTriggersExact ==
    /\ [](available.made =>
            available.result =
                {t \in SuppliedTriggers(machine) :
                    HasTransition(machine, available.current_state, t)})
    /\ []((available.made /\ CalledFrom(available.current_state)) =>
            (call.trigger \in available.result
                <=> call.error.kind # "No transition"))
    /\ [][available' # available =>
            /\ audit_log' = audit_log
            /\ machine' = machine
            /\ observed' = observed]_vars

\* the triggers of an active item were listed, consume among them, and an
\* attempt to consume it was refused by its guard, not for want of a transition
C22_Witness ==
    /\ available.made
    /\ available.current_state = "active"
    /\ available.result = {"consume", "expire", "discard"}
    /\ CalledFrom("active")
    /\ call.trigger = "consume"
    /\ call.error.kind = "Guard conditions not met"

\* the (state, trigger, state) edges the review workflow is said to accept
ReviewEdges ==
    {<<"pending_review", "approve", "approved">>,
     <<"pending_review", "reject", "rejected">>,
     <<"pending_review", "request_info", "needs_info">>,
     <<"needs_info", "resubmit", "pending_review">>,
     <<"rejected", "appeal", "pending_review">>}

\* C23: the review workflow accepts exactly the five edges of ReviewEdges;
\* every attempt on it succeeds along one of them or fails with the
\* no-transition error, no guard and no action ever being evaluated, and the
\* stored status of an approved entity never changes.
C23_ReviewAcceptsFiveEdges ==
    /\ [](call.made =>
            /\ call.success <=>
                   <<call.current_state, call.trigger, call.state>> \in ReviewEdges
            /\ call.success =>
                   /\ call.error = NoError
                   /\ observed = call.state
            /\ ~call.success =>
                   /\ call.error = NoTransitionError(call.trigger, call.current_state)
                   /\ call.state = call.current_state
                   /\ \A e \in ReviewEdges :
                          <<e[1], e[2]>> # <<call.current_state, call.trigger>>
            /\ call.guards = <<>>
            /\ call.actions = <<>>)
    /\ [][observed = "approved" => observed' = "approved"]_vars

\* an entity was rejected, appealed, approved, and an appeal of the approval
\* was then refused
C23_Witness ==
    /\ Len(audit_log) = 3
    /\ audit_log[1].to_state = "rejected"
    /\ audit_log[2].trigger = "appeal"
    /\ observed = "approved"
    /\ CalledFrom("approved")
    /\ call.trigger = "appeal"
    /\ ~call.success

\* the audit entries chain from the initial state: the entity's history
LogChains ==
    /\ audit_log # <<>> => audit_log[1].from_state = machine.initial_state
    /\ \A i \in 1..(Len(audit_log) - 1) :
          audit_log[i].to_state = audit_log[i + 1].from_state

\* C24: in the food-bank pipeline, along every sequence of successful
\* transitions from scraped, the entity was validated and then activated
\* before it is first active, inactive is entered only from active, and
\* remove succeeds only from active or inactive: an attempt to remove a
\* scraped or validated entity fails and leaves it where it was.
C24_PipelineOrder ==
    /\ LogChains
    /\ \A i \in 1..Len(audit_log) :
          /\ audit_log[i].to_state = "active" =>
                \E j \in 1..(i - 1) :
                    /\ audit_log[j].trigger = "validate"
                    /\ audit_log[j].to_state = "validated"
                    /\ \E k \in (j + 1)..i :
                          /\ audit_log[k].trigger = "activate"
                          /\ audit_log[k].to_state = "active"
          /\ audit_log[i].to_state = "inactive" =>
                audit_log[i].from_state = "active"
          /\ audit_log[i].trigger = "remove" =>
                audit_log[i].from_state \in {"active", "inactive"}
    /\ (call.made /\ call.trigger = "remove"
            /\ call.current_state \in {"scraped", "validated"}) =>
          /\ ~call.success
          /\ call.state = call.current_state
          /\ observed = call.current_state

\* an entity was validated, activated, deactivated and then removed
C24_Witness ==
    /\ Len(audit_log) = 4
    /\ audit_log[3].to_state = "inactive"
    /\ audit_log[4].trigger = "remove"
    /\ audit_log[4].from_state = "inactive"
    /\ observed = "removed"

\* the latest call appended the entry from_state -> to_state to the log
LastEntryIs(from_state, to_state) ==
    /\ audit_log # <<>>
    /\ audit_log[Len(audit_log)].from_state = from_state
    /\ audit_log[Len(audit_log)].to_state = to_state
    /\ audit_log[Len(audit_log)].trigger = call.trigger

\* C25: in the item lifecycle, discard_scan on a scanned item succeeds,
\* returns scanned and appends an entry scanned -> scanned, leaving the item
\* scanned; the only step that takes an item out of scanned is a promote,
\* into active; an item that has left scanned never is scanned again; and
\* restore on a consumed, expired or discarded item succeeds into active.
C25_ScanLoopPromoteRestore ==
    /\ []((CalledFrom("scanned") /\ call.trigger = "discard_scan") =>
            /\ call.success
            /\ call.state = "scanned"
            /\ observed = "scanned"
            /\ LastEntryIs("scanned", "scanned"))
    /\ [][(ncalls' # ncalls /\ observed = "scanned"
                /\ call'.trigger = "discard_scan") =>
            /\ Len(audit_log') = Len(audit_log) + 1
            /\ observed' = "scanned"]_vars
    /\ [][(observed = "scanned" /\ observed' # "scanned") =>
            /\ call'.trigger = "promote"
            /\ observed' = "active"]_vars
    /\ [][observed # "scanned" => observed' # "scanned"]_vars
    /\ [](\A i \in 1..Len(audit_log) :
            audit_log[i].to_state = "scanned" => audit_log[i].from_state = "scanned")
    /\ []((call.made /\ call.trigger = "restore"
              /\ call.current_state \in {"consumed", "expired", "discarded"}) =>
            /\ call.success
            /\ call.state = "active"
            /\ observed = "active"
            /\ LastEntryIs(call.current_state, "active"))

\* a scan was discarded once, the item then promoted, discarded and restored
C25_Witness ==
    /\ Len(audit_log) = 4
    /\ audit_log[1].trigger = "discard_scan"
    /\ audit_log[1].from_state = "scanned"
    /\ audit_log[1].to_state = "scanned"
    /\ audit_log[2].trigger = "promote"
    /\ CalledFrom("discarded")
    /\ call.trigger = "restore"
    /\ observed = "active"

(***************************************************************************)
(* Properties of the registry's records.                                   *)
(***************************************************************************)
\* C27: list_sources seeds only an empty collection: every document the
\* seeding writes is a new one (no record that exists is written over, also
\* when calls overlap), a call that finds documents changes none, and a call
\* that seeded returns exactly the built-in sources.
C27_SeedingNeverOverwrites ==
    /\ [][(listers' # listers /\ op'.name = "seed_set") =>
            /\ op'.id \notin DOMAIN store
            /\ store'[op'.id] = SeedDoc(Builtin(op'.id))]_vars
    /\ [][(op' # op /\ op'.name = "list_sources" /\ ~op'.seeded) =>
            store' = store]_vars
    /\ []((op.name = "list_sources" /\ op.seeded) =>
            /\ DOMAIN store = SourceIds
            /\ Len(op.ids) = Len(BUILTIN_SOURCES))

Statuses == {"healthy", "cooldown", "disabled"}

\* the step wrote the status of source id as the outcome of a fetch of it or
\* as an administrator's reset, enable or disable of it
StatusWriter(id) ==
    /\ op'.name \in {"fetch_source", "reset_cooldown", "enable_source",
                     "disable_source"}
    /\ op'.id = id

\* C26: every record of the registry has one of the three statuses, a
\* record's status changes only in a step that is the outcome of a fetch of
\* that source or a reset_cooldown, enable_source or disable_source on it,
\* and no step removes a source id.
C26_StatusChangesOnlyByFetchOrAdmin ==
    /\ [](\A id \in DOMAIN store : store[id].status \in Statuses)
    /\ [][\A id \in DOMAIN store \cap DOMAIN store' :
            store'[id].status # store[id].status => StatusWriter(id)]_vars
    /\ [][DOMAIN store \subseteq DOMAIN store']_vars

\* the step is a call of the named operation on a stored source
AdminStep(name) ==
    /\ nops' # nops
    /\ op'.name = name
    /\ op'.id \in DOMAIN store

\* C28 as stated: neither disable_source nor enable_source modifies
\* cooldown_until, which is therefore the same after a disable and a
\* following enable as before them.
C28_DisableAndEnableKeepTimer ==
    [][(AdminStep("disable_source") \/ AdminStep("enable_source")) =>
          store'[op'.id].cooldown_until = store[op'.id].cooldown_until]_vars

\* C28: disable_source writes the status of its source and nothing else,
\* whatever the cooldown timer holds, so a disabled source keeps its
\* cooldown_until; enable_source, whatever the timer holds, sets status
\* healthy and clears cooldown_until and error_message, so after a disable
\* and a following enable cooldown_until is null.  Neither touches another
\* record.
C28_DisableKeepsTimerEnableClearsIt ==
    /\ [][AdminStep("disable_source") =>
            /\ op'.ok
            /\ store' = [store EXCEPT ![op'.id] =
                            [@ EXCEPT !.status = "disabled"]]]_vars
    /\ [][AdminStep("enable_source") =>
            /\ op'.ok
            /\ store' = [store EXCEPT ![op'.id] =
                            [@ EXCEPT !.status = "healthy",
                                      !.cooldown_until = PyNone,
                                      !.error_message = PyNone]]]_vars

\* a source whose failed fetch set its timer was disabled and keeps the timer
C28_Witness ==
    /\ op.name = "disable_source"
    /\ op.ok
    /\ store[op.id].status = "disabled"
    /\ store[op.id].cooldown_until # PyNone
    /\ store[op.id].last_error # PyNone

\* thread t leaves its probe in this step
ProbeEnds(t) ==
    /\ inflight[t] # Idle
    /\ inflight[t].pc = "probing"
    /\ inflight'[t] # inflight[t]

\* C29: whatever the probe gives (a response below 400, an HTTP error
\* response, a network exception, a timeout), the fetch_source call that
\* made it goes on and returns a result with success, new_count and error,
\* and leaves its source healthy or in cooldown: in cooldown, with the
\* error recorded and success false, whenever the probe failed.
C29_ProbeFailureNotFatal ==
    /\ []((op.name = "fetch_source" /\ op.probe \in ProbeOutcomes) =>
            /\ DOMAIN op.result = {"success", "new_count", "error"}
            /\ op.result.success \in BOOLEAN
            /\ op.result.new_count \in 0..MaxRefreshed
            /\ store[op.id].status \in {"healthy", "cooldown"}
            /\ op.result.success <=> store[op.id].status = "healthy"
            /\ op.probe # "ok" =>
                  /\ op.result = FetchResult(FALSE, 0, ProbeError(op.probe))
                  /\ store[op.id].status = "cooldown"
                  /\ store[op.id].error_message = Str(ProbeError(op.probe)))
    /\ [][\A t \in Threads : ProbeEnds(t) =>
            \/ /\ inflight'[t] # Idle
               /\ inflight'[t].pc = "refreshing"
               /\ op'.name = "probe_ok"
            \/ /\ inflight'[t] = Idle
               /\ op'.name = "fetch_source"
               /\ op'.thread = t
               /\ op'.probe \in ProbeOutcomes \ {"ok"}]_vars

\* a probe timed out: the call returned its failure and the source cools down
C29_Witness ==
    /\ op.name = "fetch_source"
    /\ op.probe = "timeout"
    /\ ~op.result.success
    /\ store[op.id].status = "cooldown"

\* thread t is inside fetch_source(id): probing or refreshing
Fetching(t, id) ==
    /\ inflight[t] # Idle
    /\ inflight[t].id = id

\* C30: at no time are two fetch_source calls under way on the same source,
\* whichever way they were started: by a run of scrape_and_update or by the
\* administrator's fetch of one source.
C30_NoTwoFetchesOnOneSource ==
    \A id \in DOMAIN store :
        ~(Fetching("scheduler", id) /\ Fetching("manual", id))

(***************************************************************************)
(* Properties of the three workflow tables.                                *)
(***************************************************************************)
\* C37: in each of the three workflow tables no two transitions share
\* (from_state, trigger), so a successful attempt returns the to_state of
\* the one transition declared for (current_state, trigger), and an attempt
\* is refused for its guard only for consume or discard on an active item
\* of the item lifecycle.
C37_TablesUnambiguous ==
    /\ \A i, j \in 1..Len(machine.transitions) :
          (/\ machine.transitions[i].from_state = machine.transitions[j].from_state
           /\ machine.transitions[i].trigger = machine.transitions[j].trigger)
             => i = j
    /\ (call.made /\ call.success) =>
          /\ Cardinality(Matching(machine, call.current_state, call.trigger)) = 1
          /\ \A i \in Matching(machine, call.current_state, call.trigger) :
                call.state = machine.transitions[i].to_state
    /\ (call.made /\ call.error.kind = "Guard conditions not met") =>
          /\ machine.name = "item_lifecycle"
          /\ call.current_state = "active"
          /\ call.trigger \in {"consume", "discard"}

\* a discard of an active item was refused for its guard
C37_Witness ==
    /\ machine.name = "item_lifecycle"
    /\ CalledFrom("active")
    /\ call.trigger = "discard"
    /\ call.error = GuardNotMetError("discard")
    /\ observed = "active"

\* the states one successful transition leads to from a state of S, the
\* context being any a caller may pass
Successors(m, S) ==
    {m.transitions[i].to_state : i \in
        {k \in 1..Len(m.transitions) :
            /\ m.transitions[k].from_state \in S
            /\ \/ m.transitions[k].guard = "None"
               \/ \E ctx \in EntityContexts \ {PyNone} :
                     GuardHolds(m.transitions[k].guard, ctx)}}

RECURSIVE ReachableFrom(_, _)
ReachableFrom(m, S) ==
    IF Successors(m, S) \subseteq S THEN S
    ELSE ReachableFrom(m, S \cup Successors(m, S))

\* C38: each workflow machine is closed and connected over its declared
\* states: initial_state and both ends of every transition are declared,
\* every declared state is reached from initial_state by successful
\* transitions, and an entity that starts in a declared state and is fed
\* each returned state stays within the declared states.
C38_ClosedAndConnected ==
    /\ machine.initial_state \in machine.states
    /\ \A i \in 1..Len(machine.transitions) :
          /\ machine.transitions[i].from_state \in machine.states
          /\ machine.transitions[i].to_state \in machine.states
    /\ ReachableFrom(machine, {machine.initial_state}) = machine.states
    /\ observed \in machine.states
    /\ call.made => call.state \in machine.states
    /\ \A i \in 1..Len(audit_log) :
          /\ audit_log[i].from_state \in machine.states
          /\ audit_log[i].to_state \in machine.states

\* a food bank followed from scraped through every other declared state
C38_Witness ==
    /\ machine.name = "foodbank_pipeline"
    /\ Len(audit_log) = 4
    /\ audit_log[1].from_state = "scraped"
    /\ {audit_log[i].to_state : i \in 1..4} =
          {"validated", "active", "inactive", "removed"}
    /\ observed = "removed"

(***************************************************************************)
(* Properties of fetch_source and of the callers that start it.            *)
(***************************************************************************)
\* the step is the start of a fetch_source call: it returned at once, or
\* went to its probe
FetchStarts ==
    /\ \/ nops' # nops
       \/ run' # run
       \/ inflight' # inflight
    /\ \/ op'.name = "probe_start"
       \/ op'.name = "fetch_source" /\ op'.probe = "none"

\* C34: fetch_source on an unknown id or on a source stored as disabled
\* returns success false, new_count 0 and an error without probing, and
\* changes no record and creates none; on any other source it goes to its
\* probe.
C34_DisabledOrUnknownIsNotFetched ==
    [][FetchStarts =>
          IF \/ op'.id \notin DOMAIN store
             \/ store[op'.id].status = "disabled"
          THEN /\ op'.name = "fetch_source"
               /\ op'.result =
                     FetchResult(FALSE, 0,
                                 IF op'.id \notin DOMAIN store
                                 THEN "Source not found" ELSE "Source is disabled")
               /\ store' = store
               /\ inflight' = inflight
          ELSE /\ op'.name = "probe_start"
               /\ store' = store]_vars

\* a run that listed a source as healthy came to fetch it after it had been
\* disabled: the call returned at once and the record kept its fields
C34_Witness ==
    /\ op.name = "fetch_source"
    /\ op.thread = "scheduler"
    /\ op.probe = "none"
    /\ op.result = FetchResult(FALSE, 0, "Source is disabled")
    /\ store[op.id].status = "disabled"
    /\ store[op.id].last_error = PyNone

\* the step starts a network probe
ProbeStarts ==
    /\ inflight' # inflight
    /\ op'.name = "probe_start"

\* the record's cooldown_until lies in the future at time t
TimerRunning(source, t) ==
    /\ source.cooldown_until # PyNone
    /\ t < source.cooldown_until.num

\* C32 as stated: no probe of a source starts, on any path, while the
\* cooldown_until of its record lies in the future.
C32_NoProbeDuringCooldown ==
    [][ProbeStarts => ~TimerRunning(store[op'.id], now)]_vars

\* C32: a scheduler run starts no probe of a source that its own listing
\* shows with cooldown_until in the future, and skips it; once the listed
\* cooldown_until has passed or was cleared the run fetches the source
\* again unless it is listed disabled.  The administrator's fetch probes
\* every stored source that is not disabled, whatever its timer.
C32_CooldownSuspendsListedRetries ==
    /\ [][(ProbeStarts /\ op'.thread = "scheduler") =>
            /\ run.sources[run.i].id = op'.id
            /\ ~TimerRunning(run.sources[run.i], now)
            /\ run.sources[run.i].status # "disabled"]_vars
    /\ [][LoopTurn =>
            IF TimerRunning(run.sources[run.i], now)
            THEN /\ op'.name = "run_skip"
                 /\ inflight' = inflight
                 /\ store' = store
            ELSE run.sources[run.i].status # "disabled" =>
                    op'.name \in {"probe_start", "fetch_source"}]_vars
    /\ [][(nops' # nops /\ op'.name \in {"probe_start", "fetch_source"}
              /\ op'.thread = "manual") =>
            (op'.name = "probe_start" <=>
                (op'.id \in DOMAIN store /\ store[op'.id].status # "disabled"))]_vars

\* a run skipped a source whose failed fetch had started a cooldown that
\* is still running
C32_Witness ==
    /\ op.name = "run_skip"
    /\ run.active
    /\ store[op.id].status = "cooldown"
    /\ TimerRunning(store[op.id], now)

\* C33: in every state of the registry, whatever the interleaving of
\* fetches, resets, enables and disables, a healthy record has cooldown_until
\* and error_message null, and a record in cooldown has cooldown_until,
\* last_error and error_message all set.
C33_StatusAgreesWithFields ==
    \A id \in DOMAIN store :
        /\ store[id].status = "healthy" =>
              /\ store[id].cooldown_until = PyNone
              /\ store[id].error_message = PyNone
        /\ store[id].status = "cooldown" =>
              /\ store[id].cooldown_until # PyNone
              /\ store[id].last_error # PyNone
              /\ store[id].error_message # PyNone

\* a source that had failed was reset to healthy, keeping its last_error,
\* while another source is in cooldown
C33_Witness ==
    /\ op.name = "reset_cooldown"
    /\ op.ok
    /\ store[op.id].status = "healthy"
    /\ store[op.id].last_error # PyNone
    /\ \E id \in DOMAIN store : id # op.id /\ store[id].status = "cooldown"

(***************************************************************************)
(* Properties of the review of a contributed product.                      *)
(***************************************************************************)
\* the step is the return of an approve or reject call
ReviewReturns ==
    /\ op'.name \in {"approve", "reject"}
    /\ \/ nops' # nops
       \/ reviews' # reviews

\* C35: approve and reject return True only when the product exists and
\* the status the call read was pending_review, a document without status
\* read as pending_review; a call that returns False found no product or a
\* status of approved, rejected or needs_info, and wrote no document of
\* products or contributed_products and appended no audit entry.
C35_ReviewReturnsTrueOnlyFromPending ==
    /\ [][ReviewReturns =>
            IF op'.result
            THEN /\ op'.read = "pending_review"
                 /\ contributed # PyNone
                 /\ contributed'.status = IF op'.name = "approve"
                                          THEN "approved" ELSE "rejected"
            ELSE /\ op'.read \in {"no product", "approved", "rejected", "needs_info"}
                 /\ (op'.read = "no product") <=> (contributed = PyNone)
                 /\ contributed' = contributed
                 /\ products' = products
                 /\ audit_log' = audit_log]_vars
    /\ [][(nops' # nops /\ contributed # PyNone
              /\ "status" \notin DOMAIN contributed
              /\ op'.name \notin {"contribute_product"}) =>
            /\ op'.name = "review_attempted"
            /\ call'.current_state = "pending_review"
            /\ call'.success]_vars

\* an approval of a product that is approved already was refused
C35_Witness ==
    /\ op = ReviewOp("approve", "admin2", "approved", FALSE)
    /\ contributed # PyNone
    /\ contributed.status = "approved"
    /\ contributed.reviewed_by = "admin1"
    /\ Len(audit_log) = 1

\* no approve or reject call is between its read and its last write
ReviewsDone == \A r \in Reviewers : reviews[r] = Idle

\* C31: the calls on one product are serialized: at most one call at a time
\* holds a successful transition out of the pending_review status it read,
\* and once the calls have returned the stored status of a reviewed product
\* is the to_state of the last audit entry, a product copied into products
\* being an approved one.
C31_ReviewCallsSerialized ==
    /\ Cardinality({r \in Reviewers : reviews[r] # Idle}) <= 1
    /\ (/\ ReviewsDone
        /\ contributed # PyNone
        /\ audit_log # <<>>
        /\ StatusOf(contributed) \in {"approved", "rejected"}) =>
          /\ contributed.status = audit_log[Len(audit_log)].to_state
          /\ products # PyNone => contributed.status = "approved"

\* C36: the stored status of a contributed product changes only along an
\* edge of the review workflow that a successful attempt recorded in the
\* audit log, so an approved product never is pending_review again.
C36_StatusFollowsWorkflow ==
    [][(contributed # PyNone /\ contributed' # PyNone
           /\ StatusOf(contributed') # StatusOf(contributed)) =>
          /\ \E i \in 1..Len(audit_log') :
                /\ audit_log'[i].from_state = StatusOf(contributed)
                /\ audit_log'[i].to_state = StatusOf(contributed')
          /\ StatusOf(contributed) # "approved"]_vars

====
